---- MODULE Spec2Model ----
(***************************************************************************)
(* A model of src/src/lib/indexedDB.js (class IndexedDBHelper) running on  *)
(* the browser's IndexedDB engine: the schema registry, the memoized       *)
(* connection, the transactional CRUD calls and the snapshot export and    *)
(* import.  The helper's methods are the actions; the engine is modelled   *)
(* by the operators the methods call (open requests, object stores, key    *)
(* generators, transactions).                                              *)
(***************************************************************************)
EXTENDS Integers, Sequences, FiniteSets, TLC

(***************************************************************************)
(* Bounds of the model.                                                    *)
(***************************************************************************)
\* database versions a page may be constructed with
MaxVersion == 2
\* requests that may wait in the engine's connection queue of the database
MaxQueue == 2
\* open connections of one page
MaxConn == 2
\* largest key a key generator hands out
MaxKey == 3
\* records or keys in the array handed to one add, put or batchDelete call
MaxBatch == 2

(***************************************************************************)
(* Values.                                                                 *)
(***************************************************************************)
\* JavaScript null/undefined: this.db = null, a missing or null key
Null == 0

EmptyMap == << >>

MapPut(m, k, v) == [x \in (DOMAIN m) \cup {k} |-> IF x = k THEN v ELSE m[x]]

MapRemove(m, k) == [x \in (DOMAIN m) \ {k} |-> m[x]]

\* the names of the object stores, in the order of a DOMStringList (sorted)
StoreOrder == <<"ghost", "notes", "records">>

DeclaredNames == {"notes", "records"}

\* Array.from(db.objectStoreNames), Object.entries(...): the names of S in order
NamesInOrder(S) ==
    LET In(n) == n \in S
    IN  SelectSeq(StoreOrder, In)

(***************************************************************************)
(* Schema registry: addStore(storeName, options).                          *)
(***************************************************************************)
DateIndexOption == [name |-> "date", keyPath |-> "date", unique |-> FALSE]

\* an index declared by its name only, and unique
BareIndexOption == [name |-> "date", keyPath |-> "", unique |-> TRUE]

\* the options of the application's store `records`
RecordsOptions == [keyPath |-> "uid", autoIncrement |-> TRUE, indexes |-> {DateIndexOption}]

\* options that leave keyPath and autoIncrement out (the empty string is the
\* missing or falsy keyPath)
BareOptions == [keyPath |-> "", autoIncrement |-> FALSE, indexes |-> {BareIndexOption}]

StoreOptions == {RecordsOptions, BareOptions}

\* the descriptor addStore keeps: keyPath || 'id', autoIncrement || false, indexes || []
StoreConfig(options) ==
    [keyPath       |-> IF options.keyPath = "" THEN "id" ELSE options.keyPath,
     autoIncrement |-> options.autoIncrement,
     indexes       |-> options.indexes]

(***************************************************************************)
(* The engine's object stores.  A store is                                 *)
(*   [keyPath, autoIncrement, indexes, records, keyGenerator]              *)
(* with records a function from the keys present to the stored values.     *)
(***************************************************************************)
\* objectStore.createIndex(index.name, index.keyPath || index.name, {unique: index.unique || false})
CreateIndex(index) ==
    [name    |-> index.name,
     keyPath |-> IF index.keyPath = "" THEN index.name ELSE index.keyPath,
     unique  |-> index.unique]

\* db.createObjectStore(storeName, {keyPath, autoIncrement}) and its indexes
CreateObjectStore(config) ==
    [keyPath       |-> config.keyPath,
     autoIncrement |-> config.autoIncrement,
     indexes       |-> {CreateIndex(i) : i \in config.indexes},
     records       |-> EmptyMap,
     keyGenerator  |-> 1]

\* the upgrade keeps a store that exists already instead of recreating it
OnUpgradeNeededKeep(os, registry) ==
    [s \in (DOMAIN os) \cup (DOMAIN registry) |->
        IF s \in DOMAIN os THEN os[s] ELSE CreateObjectStore(registry[s])]

\* request.onupgradeneeded: every store of the registry is deleted if it exists
\* and created anew; the other stores of the database are not touched
OnUpgradeNeeded(os, registry) ==
    [s \in (DOMAIN os) \cup (DOMAIN registry) |->
        IF s \in DOMAIN registry THEN CreateObjectStore(registry[s]) ELSE os[s]]

\* a unique index of st already holds the value of `value` under another key
UniqueViolation(st, key, value) ==
    \E ix \in st.indexes :
        /\ ix.unique
        /\ ix.keyPath \in DOMAIN value
        /\ \E k \in DOMAIN st.records :
              /\ k # key
              /\ ix.keyPath \in DOMAIN st.records[k]
              /\ st.records[k][ix.keyPath] = value[ix.keyPath]

\* the key generator hands out the smallest key that is free in the store
StoreRequestReuse(st, item, noOverwrite) ==
    LET kp      == st.keyPath
        present == kp \in DOMAIN item
        free    == (1..(MaxKey + 1)) \ (DOMAIN st.records)
        failed(e) == [error |-> e, store |-> st, key |-> Null]
    IN  IF present /\ item[kp] = Null THEN failed("DataError")
        ELSE IF ~present /\ ~st.autoIncrement THEN failed("DataError")
        ELSE IF ~present /\ st.keyGenerator > MaxKey THEN failed("ConstraintError")
        ELSE
          LET key   == IF present THEN item[kp] ELSE CHOOSE k \in free : \A j \in free : k <= j
              value == IF present THEN item ELSE (kp :> key) @@ item
              gen   == IF st.autoIncrement /\ key >= st.keyGenerator
                         THEN key + 1 ELSE st.keyGenerator
          IN  IF noOverwrite /\ key \in DOMAIN st.records THEN failed("ConstraintError")
              ELSE IF UniqueViolation(st, key, value) THEN failed("ConstraintError")
              ELSE [error |-> "",
                    store |-> [st EXCEPT !.records = MapPut(st.records, key, value),
                                         !.keyGenerator = gen],
                    key   |-> key]

\* The engine's store operation behind objectStore.put(item) (noOverwrite =
\* FALSE) and objectStore.add(item) (noOverwrite = TRUE) on store st.
\* error = "DataError" is thrown by the call itself, error = "ConstraintError"
\* is the request's error event, error = "" is success with the key.
StoreRequest(st, item, noOverwrite) ==
    LET kp      == st.keyPath
        present == kp \in DOMAIN item
        failed(e) == [error |-> e, store |-> st, key |-> Null]
    IN  IF present /\ item[kp] = Null THEN failed("DataError")
        ELSE IF ~present /\ ~st.autoIncrement THEN failed("DataError")
        ELSE IF ~present /\ st.keyGenerator > MaxKey THEN failed("ConstraintError")
        ELSE
          LET key   == IF present THEN item[kp] ELSE st.keyGenerator
              value == IF present THEN item ELSE (kp :> key) @@ item
              gen   == IF st.autoIncrement /\ key >= st.keyGenerator
                         THEN key + 1 ELSE st.keyGenerator
          IN  IF noOverwrite /\ key \in DOMAIN st.records THEN failed("ConstraintError")
              ELSE IF UniqueViolation(st, key, value) THEN failed("ConstraintError")
              ELSE [error |-> "",
                    store |-> [st EXCEPT !.records = MapPut(st.records, key, value),
                                         !.keyGenerator = gen],
                    key   |-> key]

\* put refuses a key that is in the store, like add
PutRequestNoOverwrite(st, item) == StoreRequest(st, item, TRUE)

PutRequest(st, item) == StoreRequest(st, item, FALSE)

AddRequest(st, item) == StoreRequest(st, item, TRUE)

\* objectStore.getAll(): the values in ascending key order
RECURSIVE ValuesFrom(_, _)
ValuesFrom(records, k) ==
    IF k > MaxKey + 1 THEN << >>
    ELSE (IF k \in DOMAIN records THEN <<records[k]>> ELSE << >>) \o ValuesFrom(records, k + 1)

GetAllRequest(st) == ValuesFrom(st.records, 1)

(***************************************************************************)
(* Records handed to the calls.                                            *)
(***************************************************************************)
KeyedItem1 == [uid |-> 1, id |-> 1, date |-> 1]

KeyedItem2 == [uid |-> 2, id |-> 2, date |-> 1]

UnkeyedItem == [date |-> 2]

NullKeyItem == [uid |-> Null, id |-> Null, date |-> 2]

Items == {KeyedItem1, KeyedItem2, UnkeyedItem, NullKeyItem}

\* the records the connection manager's specification stores
StoredItems == {KeyedItem1}

(***************************************************************************)
(* State.                                                                  *)
(***************************************************************************)
VARIABLES
    version,        \* this.version
    stores,         \* this.stores: the schema registry, name -> descriptor
    db,             \* this.db: the memoized connection, or Null
    idbVersion,     \* the stored version of the database, 0 when it does not exist
    objectStores,   \* the object stores of the database, name -> store
    connections,    \* the open connections to the database
    requestQueue,   \* the engine's pending open ("open") and delete ("delete") requests
    opened,         \* the connection the first open() since the last close() resolved to
    returned,       \* the connection the latest memoized open() resolved to
    upgradeDropped, \* the last upgrade dropped a declared store that held records
    upgradeKept,    \* the last upgrade left an undeclared store that held records
    snapshot,       \* the snapshot exportData() has just returned, if taken
    call,           \* the latest CRUD call: its transaction and its promise
    imp,            \* the importData() call: its options, its position, its result
    source,         \* the object stores the snapshot was exported from, once the
                    \* database has been replaced by an empty one of the same registry
    file,           \* the relational file: the records exported, its tables, what
                    \* importing it reconstructs
    settled,        \* the promise of init() or deleteDatabase() that settled last
    view            \* the Record page: its date, its list, its selection, isSaved

\* no exportData() has just returned
NoSnapshot == [taken |-> FALSE, stores |-> EmptyMap]

\* the arguments of getByIndex (index, value) and of cursor: options.direction,
\* options.range as [lower, upper] (Null for an open end) and the callback, as
\* the set of keys for whose record it returns false
NoOptions ==
    [direction |-> "next", lower |-> Null, upper |-> Null, callback |-> {},
     index |-> "", value |-> Null]

\* no CRUD call has been made
NoCall ==
    [op |-> "none", store |-> "", isArray |-> FALSE, options |-> NoOptions,
     visited |-> << >>, requests |-> << >>,
     work |-> EmptyMap, before |-> EmptyMap, results |-> << >>, state |-> "none",
     handlers |-> FALSE, promise |-> "none", value |-> Null, error |-> "",
     requestError |-> FALSE]

\* importData() has not been called.  result is the result object of the
\* call; the other fields are its options, its position in the snapshot and
\* what it has done so far:
\*   format              the snapshot handed over: "ok", "null" or "noStores"
\*   names, storeName    the entries of importData.stores still to visit, the current one
\*   data, successCount  the records of the current entry still to put, the puts that succeeded
\*   order               the entries visited, in order
\*   total, puts, failed per store: the records of its entry, the puts attempted, the puts that failed
\*   missing, clearFailed the entries skipped as missing, the stores whose clear() failed
\*   error               the error the call rejected with
NoImport ==
    [pc |-> "idle", format |-> "ok", clearBeforeImport |-> FALSE, skipErrors |-> TRUE,
     names |-> << >>, storeName |-> "", data |-> << >>, successCount |-> 0,
     result |-> [success |-> TRUE, imported |-> EmptyMap, errors |-> << >>],
     order |-> << >>, total |-> EmptyMap, puts |-> EmptyMap, failed |-> EmptyMap,
     missing |-> {}, clearFailed |-> {}, error |-> ""]

\* the database has not been replaced
NoSource == EmptyMap

\* no relational file has been written
NoFile ==
    [phase |-> "none", exported |-> EmptyMap, tables |-> EmptyMap, rebuilt |-> EmptyMap,
     error |-> ""]

\* no promise of init() or deleteDatabase() has settled.  caller is the method
\* whose promise settled, outcome how, value the connection or error the error
\* it settled with; crud tells what became of the CRUD call that awaited the
\* init(); warned that the "blocked" warning was logged for the request; tick
\* flips at every settlement.
NoSettled ==
    [caller |-> "none", outcome |-> "none", value |-> Null, error |-> "",
     crud |-> "none", warned |-> FALSE, tick |-> FALSE]

\* the Record page as it is mounted on an empty day: calendarValue the day
\* shown, recordList the list on the left, recordUid the selected record,
\* isSaved the store's flag that enables the editor and its save button,
\* content the editor's text, failed the call that met a missing record,
\* alert the message box an import ended with
NoView ==
    [calendarValue |-> 1, recordList |-> << >>, recordUid |-> Null, isSaved |-> FALSE,
     content |-> "", failed |-> "none", alert |-> "none"]

vars == <<version, stores, db, idbVersion, objectStores, connections, requestQueue,
          opened, returned, upgradeDropped, upgradeKept, snapshot, call, imp,
          source, file, settled, view>>

helperVars == <<version, stores, db>>

engineVars == <<idbVersion, objectStores, connections, requestQueue>>

historyVars == <<opened, returned, upgradeDropped, upgradeKept>>

crudVars == <<call>>

importVars == <<imp>>

portVars == <<source, file>>

pageVars == <<settled, view>>

(***************************************************************************)
(* The connection manager.                                                 *)
(***************************************************************************)
\* a page load: new IndexedDBHelper(dbName, v).  The connections and the open
\* requests of the page before are gone; a deletion it requested stays queued.
Construct(v) ==
    LET IsDelete(r) == r = "delete"
    IN  /\ version' = v
        /\ stores' = EmptyMap
        /\ db' = Null
        /\ connections' = {}
        /\ requestQueue' = SelectSeq(requestQueue, IsDelete)
        /\ opened' = Null
        /\ returned' = Null
        /\ snapshot' = NoSnapshot
        /\ UNCHANGED <<crudVars, importVars, portVars, pageVars>>
        /\ UNCHANGED <<idbVersion, objectStores, upgradeDropped, upgradeKept>>

\* addStore(storeName, options)
AddStore(storeName, options) ==
    /\ stores' = MapPut(stores, storeName, StoreConfig(options))
    /\ snapshot' = NoSnapshot
    /\ UNCHANGED <<crudVars, importVars, portVars, pageVars>>
    /\ UNCHANGED <<version, db, engineVars, historyVars>>

\* init() with this.db set: resolve(this.db)
InitMemoized ==
    /\ db # Null
    /\ returned' = db
    /\ snapshot' = NoSnapshot
    /\ UNCHANGED <<crudVars, importVars, portVars, pageVars>>
    /\ UNCHANGED <<helperVars, engineVars, opened, upgradeDropped, upgradeKept>>

\* init() with this.db null: indexedDB.open(this.dbName, this.version)
InitOpen ==
    /\ db = Null
    /\ Len(requestQueue) < MaxQueue
    /\ requestQueue' = Append(requestQueue, "open")
    /\ snapshot' = NoSnapshot
    /\ UNCHANGED <<crudVars, importVars, portVars, pageVars>>
    /\ UNCHANGED <<helperVars, idbVersion, objectStores, connections, historyVars>>

\* the connection the engine hands to the next successful open request
NewConnection == CHOOSE c \in 1..MaxConn : c \notin connections

\* The engine serves the open request at the head of its queue: onupgradeneeded
\* when the database is new or older than the requested version, then onsuccess:
\* this.db = event.target.result; resolve(this.db)
OpenSuccess ==
    /\ requestQueue # << >>
    /\ Head(requestQueue) = "open"
    /\ version >= idbVersion
    /\ Cardinality(connections) < MaxConn
    /\ IF version > idbVersion
         THEN /\ connections = {}
              /\ objectStores' = OnUpgradeNeeded(objectStores, stores)
              /\ idbVersion' = version
              /\ upgradeDropped' = (\E s \in (DOMAIN objectStores) \cap (DOMAIN stores) :
                                        objectStores[s].records # EmptyMap)
              /\ upgradeKept' = (\E s \in (DOMAIN objectStores) \ (DOMAIN stores) :
                                        objectStores[s].records # EmptyMap)
         ELSE UNCHANGED <<objectStores, idbVersion, upgradeDropped, upgradeKept>>
    /\ connections' = connections \cup {NewConnection}
    /\ db' = NewConnection
    /\ opened' = IF opened = Null THEN NewConnection ELSE opened
    /\ requestQueue' = Tail(requestQueue)
    /\ snapshot' = NoSnapshot
    /\ UNCHANGED <<crudVars, importVars, portVars, pageVars>>
    /\ UNCHANGED <<version, stores, returned>>

\* The engine rejects the open request at the head of its queue (a VersionError
\* when the stored version is newer, or a failure of its own): request.onerror,
\* reject(event.target.error)
OpenError ==
    /\ requestQueue # << >>
    /\ Head(requestQueue) = "open"
    /\ requestQueue' = Tail(requestQueue)
    /\ snapshot' = NoSnapshot
    /\ UNCHANGED <<crudVars, importVars, portVars, pageVars>>
    /\ UNCHANGED <<helperVars, idbVersion, objectStores, connections, historyVars>>

\* close(): if (this.db) { this.db.close(); this.db = null }
Close ==
    /\ db # Null
    /\ connections' = connections \ {db}
    /\ db' = Null
    /\ opened' = Null
    /\ returned' = Null
    /\ snapshot' = NoSnapshot
    /\ UNCHANGED <<crudVars, importVars, portVars, pageVars>>
    /\ UNCHANGED <<version, stores, idbVersion, objectStores, requestQueue,
                   upgradeDropped, upgradeKept>>

\* deleteDatabase(): this.close(); indexedDB.deleteDatabase(this.dbName)
DeleteDatabase ==
    /\ Len(requestQueue) < MaxQueue
    /\ connections' = connections \ {db}
    /\ db' = Null
    /\ opened' = Null
    /\ returned' = Null
    /\ requestQueue' = Append(requestQueue, "delete")
    /\ snapshot' = NoSnapshot
    /\ UNCHANGED <<crudVars, importVars, portVars, pageVars>>
    /\ UNCHANGED <<version, stores, idbVersion, objectStores,
                   upgradeDropped, upgradeKept>>

\* The engine serves the delete request at the head of its queue once no
\* connection is open (until then the request is blocked): request.onsuccess
DeleteSuccess ==
    /\ requestQueue # << >>
    /\ Head(requestQueue) = "delete"
    /\ connections = {}
    /\ idbVersion' = 0
    /\ objectStores' = EmptyMap
    /\ requestQueue' = Tail(requestQueue)
    /\ snapshot' = NoSnapshot
    /\ UNCHANGED <<crudVars, importVars, portVars, pageVars>>
    /\ UNCHANGED <<helperVars, connections, historyVars>>

(***************************************************************************)
(* Calls on the open connection.                                           *)
(***************************************************************************)
\* put(storeName, item) of one record on the memoized connection, to its
\* transaction's end
PutOne(storeName, item) ==
    /\ db # Null
    /\ storeName \in DOMAIN objectStores
    /\ LET r == PutRequest(objectStores[storeName], item)
       IN  /\ r.error = ""
           /\ objectStores' = [objectStores EXCEPT ![storeName] = r.store]
    /\ snapshot' = NoSnapshot
    /\ UNCHANGED <<crudVars, importVars, portVars, pageVars>>
    /\ UNCHANGED <<helperVars, idbVersion, connections, requestQueue, historyVars>>

\* the stores of the database that the registry declares
ExportedNamesDeclared(os) == (DOMAIN os) \cap (DOMAIN stores)

\* the stores exportData() walks: Array.from(db.objectStoreNames)
ExportedNames(os) == DOMAIN os

\* exportData() on the memoized connection: exportData.stores[storeName] =
\* await this.getAll(storeName) for every store of the database
ExportData ==
    /\ db # Null
    /\ snapshot' = [taken  |-> TRUE,
                     stores |-> [s \in ExportedNames(objectStores) |->
                                    GetAllRequest(objectStores[s])]]
    /\ UNCHANGED <<helperVars, engineVars, historyVars, crudVars, importVars, portVars, pageVars>>

(***************************************************************************)
(* The connection manager's specification.                                 *)
(***************************************************************************)
Init ==
    /\ version \in 1..MaxVersion
    /\ stores = EmptyMap
    /\ db = Null
    /\ idbVersion = 0
    /\ objectStores = EmptyMap
    /\ connections = {}
    /\ requestQueue = << >>
    /\ opened = Null
    /\ returned = Null
    /\ upgradeDropped = FALSE
    /\ upgradeKept = FALSE
    /\ snapshot = NoSnapshot
    /\ call = NoCall
    /\ imp = NoImport
    /\ source = NoSource
    /\ file = NoFile
    /\ settled = NoSettled
    /\ view = NoView

Next ==
    \/ \E v \in 1..MaxVersion : Construct(v)
    \/ \E n \in DeclaredNames, o \in StoreOptions : AddStore(n, o)
    \/ InitMemoized
    \/ InitOpen
    \/ OpenSuccess
    \/ OpenError
    \/ Close
    \/ DeleteDatabase
    \/ DeleteSuccess
    \/ \E n \in DeclaredNames, i \in StoredItems : PutOne(n, i)
    \/ ExportData

Spec == Init /\ [][Next]_vars

(***************************************************************************)
(* Claims about the connection manager and the exporter (under Spec).      *)
(***************************************************************************)
\* C3: at most one connection to the database is open at any time, and an
\* open connection is the memoized one, also when several open() calls are
\* issued before the first open request has completed.
C3_SingleConnection ==
    /\ Cardinality(connections) <= 1
    /\ \A c \in connections : c = db

\* C4: once an open() has resolved, and until close() or deleteDatabase(),
\* the connection stays memoized (a later open() issues no request) and
\* every later open() resolves to the connection the first one resolved to.
C4_OpenIdempotent ==
    opened # Null =>
        /\ db # Null
        /\ returned # Null => returned = opened

\* the indexes a descriptor declares: a key path left out is the index name
DescriptorIndexes(config) ==
    {[name    |-> i.name,
      keyPath |-> IF i.keyPath = "" THEN i.name ELSE i.keyPath,
      unique  |-> i.unique] : i \in config.indexes}

\* C5: the step of an open() that upgrades the database leaves every store
\* of the registry in the database with the descriptor's key path,
\* auto-increment flag and indexes and without records, and leaves every
\* store that the registry does not declare as it was, records included.
C5_UpgradeProtocol ==
    [][idbVersion' > idbVersion =>
         /\ \A s \in DOMAIN stores :
               /\ s \in DOMAIN objectStores'
               /\ objectStores'[s].keyPath = stores[s].keyPath
               /\ objectStores'[s].autoIncrement = stores[s].autoIncrement
               /\ objectStores'[s].indexes = DescriptorIndexes(stores[s])
               /\ objectStores'[s].records = EmptyMap
         /\ \A s \in (DOMAIN objectStores) \ (DOMAIN stores) :
               /\ s \in DOMAIN objectStores'
               /\ objectStores'[s] = objectStores[s]]_vars

\* C5 witness: an upgrade has dropped a declared store that held records and
\* has left in place an undeclared store that held records.
C5_Witness ==
    /\ upgradeDropped
    /\ upgradeKept
    /\ idbVersion = version
    /\ \E s \in (DOMAIN objectStores) \ (DOMAIN stores) : objectStores[s].records # EmptyMap

\* C6 as claimed: the keys of a snapshot's stores are declared in the registry.
C6_SnapshotKeysDeclared ==
    snapshot.taken => DOMAIN snapshot.stores \subseteq DOMAIN stores

\* C6 as amended: the keys of a snapshot's stores are exactly the names of the
\* stores present in the database, declared in the registry or not.
C6_SnapshotKeysPresent ==
    snapshot.taken => DOMAIN snapshot.stores = DOMAIN objectStores

\* C6 witness: a snapshot taken after an upgrade under a changed registry,
\* with a store the registry does not declare.
C6_Witness ==
    /\ snapshot.taken
    /\ upgradeKept
    /\ \E s \in DOMAIN snapshot.stores : s \notin DOMAIN stores /\ snapshot.stores[s] # << >>

(***************************************************************************)
(* The CRUD engine.  A call opens one transaction on its store, issues its *)
(* sub-requests and returns a promise; the engine then serves the requests *)
(* on the transaction's working copy of the store and commits or aborts.   *)
(* `call` is the latest call:                                              *)
(*   op, store, isArray   the method, its store, Array.isArray(data)       *)
(*   requests             the sub-requests issued and not yet served       *)
(*   work, before         the store inside the transaction, and before it  *)
(*   results              the keys pushed by request.onsuccess             *)
(*   state                the transaction: active, complete or aborted     *)
(*   handlers             transaction.oncomplete/onerror have been set     *)
(*   promise, value,      the call's promise, the value it resolved with   *)
(*   error                or the error it rejected with                    *)
(*   requestError         the engine reported an error for a sub-request   *)
(***************************************************************************)
\* objectStore.add/put(item) throws a DataError at once when the key path holds
\* no valid key, or holds none and the store has no key generator
KeyError(st, item) ==
    \/ st.keyPath \in DOMAIN item /\ item[st.keyPath] = Null
    \/ st.keyPath \notin DOMAIN item /\ ~st.autoIncrement

\* index.getAll(value): the records the index of that name lists under value,
\* in ascending order of their primary keys
IndexGetAll(st, indexName, value) ==
    LET ix == CHOOSE i \in st.indexes : i.name = indexName
        Listed(record) == ix.keyPath \in DOMAIN record /\ record[ix.keyPath] = value
    IN  SelectSeq(GetAllRequest(st), Listed)

\* the record a cursor moves to: the first key of the range beyond its
\* position req.arg (Null before the first record) in its direction, or Null.
\* On an object store nextunique and prevunique are next and prev.
CursorNext(st, req) ==
    LET forward == req.direction \in {"next", "nextunique"}
        ahead   == {k \in DOMAIN st.records :
                      /\ req.lower # Null => k >= req.lower
                      /\ req.upper # Null => k <= req.upper
                      /\ req.arg # Null => IF forward THEN k > req.arg ELSE k < req.arg}
    IN  IF ahead = {} THEN Null
        ELSE IF forward THEN CHOOSE k \in ahead : \A j \in ahead : k <= j
        ELSE CHOOSE k \in ahead : \A j \in ahead : k >= j

\* the engine serves a sub-request on the store st: [error, store, result]
ServeRequest(st, req) ==
    CASE req.kind = "add" ->
           LET r == AddRequest(st, req.arg)
           IN  [error |-> r.error, store |-> r.store, result |-> r.key]
      [] req.kind = "put" ->
           LET r == PutRequest(st, req.arg)
           IN  [error |-> r.error, store |-> r.store, result |-> r.key]
      [] req.kind = "get" ->
           [error |-> "", store |-> st,
            result |-> IF req.arg \in DOMAIN st.records THEN st.records[req.arg] ELSE Null]
      [] req.kind = "getAll" ->
           [error |-> "", store |-> st, result |-> GetAllRequest(st)]
      [] req.kind = "count" ->
           [error |-> "", store |-> st, result |-> Cardinality(DOMAIN st.records)]
      [] req.kind = "delete" ->
           [error |-> "", store |-> [st EXCEPT !.records = MapRemove(st.records, req.arg)],
            result |-> Null]
      [] req.kind = "clear" ->
           [error |-> "", store |-> [st EXCEPT !.records = EmptyMap], result |-> Null]
      [] req.kind = "indexGetAll" ->
           [error |-> "", store |-> st, result |-> IndexGetAll(st, req.index, req.arg)]
      [] req.kind = "cursor" ->
           LET k == CursorNext(st, req)
           IN  [error |-> "", store |-> st,
                result |-> [done |-> k = Null, key |-> k,
                            value |-> IF k = Null THEN Null ELSE st.records[k]]]

\* the methods that settle their promise in transaction.oncomplete/onerror
SettlesOnTransaction(op) == op \in {"add", "put", "batchDelete"}

\* the arrays handed to add(), put() and, as an entry's records, to importData()
ArraysOf(S) == UNION {[1..n -> S] : n \in 0..MaxBatch}

Arrays == ArraysOf({KeyedItem1, UnkeyedItem})

KeyArrays == ArraysOf({1, 2})

\* a call can be made on the memoized connection once the engine has ended the
\* transaction of the call before
CanCall(storeName) ==
    /\ db # Null
    /\ call.state # "active"
    /\ storeName \in DOMAIN objectStores

\* the call after `new Promise(executor)` has run: the sub-requests issued
\* in input order; threw when issuing one of them threw
StartCall(op, storeName, isArray, requests, threw) ==
    [op |-> op, store |-> storeName, isArray |-> isArray, options |-> NoOptions,
     visited |-> << >>, requests |-> requests,
     work |-> objectStores[storeName], before |-> objectStores[storeName],
     results |-> << >>, state |-> "active", handlers |-> ~threw,
     promise |-> IF threw THEN "rejected" ELSE "pending",
     value |-> Null, error |-> IF threw THEN "DataError" ELSE "",
     requestError |-> FALSE]

\* dataArray.forEach(item => objectStore.add/put(item)): the requests issued
\* before one throws
IssuedRequests(kind, st, dataArray) ==
    LET bad == {i \in 1..Len(dataArray) : KeyError(st, dataArray[i])}
        n   == IF bad = {} THEN Len(dataArray)
               ELSE (CHOOSE i \in bad : \A j \in bad : i <= j) - 1
    IN  [i \in 1..n |-> [kind |-> kind, arg |-> dataArray[i]]]

\* add(storeName, data) and put(storeName, data); data is dataArray when
\* isArray, else its only element
StoreCall(op, storeName, dataArray, isArray) ==
    /\ CanCall(storeName)
    /\ LET st     == objectStores[storeName]
           issued == IssuedRequests(op, st, dataArray)
       IN  call' = StartCall(op, storeName, isArray, issued, Len(issued) < Len(dataArray))
    /\ UNCHANGED <<helperVars, engineVars, historyVars, snapshot, importVars, portVars, pageVars>>

Add(storeName, dataArray, isArray) == StoreCall("add", storeName, dataArray, isArray)

Put(storeName, dataArray, isArray) == StoreCall("put", storeName, dataArray, isArray)

\* get(storeName, key), delete(storeName, key)
KeyCall(op, storeName, key) ==
    /\ CanCall(storeName)
    /\ call' = StartCall(op, storeName, FALSE, <<[kind |-> op, arg |-> key]>>, FALSE)
    /\ UNCHANGED <<helperVars, engineVars, historyVars, snapshot, importVars, portVars, pageVars>>

Get(storeName, key) == KeyCall("get", storeName, key)

Delete(storeName, key) == KeyCall("delete", storeName, key)

\* getAll(storeName), count(storeName), clear(storeName)
StoreWideCall(op, storeName) ==
    /\ CanCall(storeName)
    /\ call' = StartCall(op, storeName, FALSE, <<[kind |-> op, arg |-> Null]>>, FALSE)
    /\ UNCHANGED <<helperVars, engineVars, historyVars, snapshot, importVars, portVars, pageVars>>

GetAll(storeName) == StoreWideCall("getAll", storeName)

Count(storeName) == StoreWideCall("count", storeName)

Clear(storeName) == StoreWideCall("clear", storeName)

\* batchDelete(storeName, keys)
BatchDelete(storeName, keys) ==
    /\ CanCall(storeName)
    /\ call' = StartCall("batchDelete", storeName, TRUE,
                         [i \in 1..Len(keys) |-> [kind |-> "delete", arg |-> keys[i]]], FALSE)
    /\ UNCHANGED <<helperVars, engineVars, historyVars, snapshot, importVars, portVars, pageVars>>

\* cursor.continue(): the request of the cursor is pending again, from key
CursorContinue(c, key) ==
    [kind |-> "cursor", arg |-> key, direction |-> c.options.direction,
     lower |-> c.options.lower, upper |-> c.options.upper]

\* getByIndex(storeName, indexName, value); objectStore.index(indexName) throws
\* NotFoundError when the store has no index of that name
GetByIndex(storeName, indexName, value) ==
    /\ CanCall(storeName)
    /\ LET known == \E i \in objectStores[storeName].indexes : i.name = indexName
           c     == StartCall("getByIndex", storeName, FALSE,
                              IF known THEN <<[kind |-> "indexGetAll", arg |-> value,
                                               index |-> indexName]>>
                              ELSE << >>, FALSE)
       IN  call' = [c EXCEPT !.options = [NoOptions EXCEPT !.index = indexName,
                                                           !.value = value],
                             !.promise = IF known THEN "pending" ELSE "rejected",
                             !.error = IF known THEN "" ELSE "NotFoundError"]
    /\ UNCHANGED <<helperVars, engineVars, historyVars, snapshot, importVars, portVars, pageVars>>

\* cursor(storeName, callback, {direction, range}): objectStore.openCursor
Cursor(storeName, direction, lower, upper, callback) ==
    /\ CanCall(storeName)
    /\ LET options == [NoOptions EXCEPT !.direction = direction, !.lower = lower,
                                        !.upper = upper, !.callback = callback]
           c       == [StartCall("cursor", storeName, FALSE, << >>, FALSE)
                          EXCEPT !.options = options]
       IN  call' = [c EXCEPT !.requests = <<CursorContinue(c, Null)>>]
    /\ UNCHANGED <<helperVars, engineVars, historyVars, snapshot, importVars, portVars, pageVars>>

\* resolve(v) and reject(e) settle a promise once
Resolve(c, v) ==
    IF c.promise = "pending" THEN [c EXCEPT !.promise = "resolved", !.value = v] ELSE c

Reject(c, e) ==
    IF c.promise = "pending" THEN [c EXCEPT !.promise = "rejected", !.error = e] ELSE c

\* request.onsuccess of add and put puts the latest key first
OnRequestSuccessFirst(c, result) ==
    CASE c.op \in {"add", "put"} -> [c EXCEPT !.results = <<result>> \o c.results]
      [] c.op \in {"get", "getAll", "count"} -> Resolve(c, result)
      [] c.op \in {"delete", "clear"} -> Resolve(c, Null)
      [] OTHER -> c

\* request.onsuccess of cursor(): callback(cursor.value, cursor), results.push
\* unless it returned false, cursor.continue(); resolve(results) at the end
OnCursorSuccess(c, result) ==
    IF result.done THEN Resolve(c, c.results)
    ELSE [c EXCEPT !.visited = Append(@, result.key),
                   !.results = IF result.key \in c.options.callback THEN @
                               ELSE Append(@, result.value),
                   !.requests = <<CursorContinue(c, result.key)>>]

\* a callback that returns false ends the traversal
OnRequestSuccessStop(c, result) ==
    CASE c.op \in {"add", "put"} -> [c EXCEPT !.results = Append(c.results, result)]
      [] c.op \in {"get", "getAll", "count", "getByIndex"} -> Resolve(c, result)
      [] c.op \in {"delete", "clear"} -> Resolve(c, Null)
      [] c.op = "cursor" ->
           IF ~result.done /\ result.key \in c.options.callback
             THEN Resolve([c EXCEPT !.visited = Append(@, result.key)], c.results)
             ELSE OnCursorSuccess(c, result)
      [] OTHER -> c

\* index.getAll lists the records of the store, whatever their indexed field
OnRequestSuccessAll(c, result) ==
    CASE c.op \in {"add", "put"} -> [c EXCEPT !.results = Append(c.results, result)]
      [] c.op \in {"get", "getAll", "count"} -> Resolve(c, result)
      [] c.op = "getByIndex" -> Resolve(c, GetAllRequest(c.work))
      [] c.op \in {"delete", "clear"} -> Resolve(c, Null)
      [] c.op = "cursor" -> OnCursorSuccess(c, result)
      [] OTHER -> c

\* request.onsuccess of the call's method
OnRequestSuccess(c, result) ==
    CASE c.op \in {"add", "put"} -> [c EXCEPT !.results = Append(c.results, result)]
      [] c.op \in {"get", "getAll", "count", "getByIndex"} -> Resolve(c, result)
      [] c.op \in {"delete", "clear"} -> Resolve(c, Null)
      [] c.op = "cursor" -> OnCursorSuccess(c, result)
      [] OTHER -> c

\* the error event of a request: request.onerror, or, bubbling,
\* transaction.onerror when the executor has set it: reject(event.target.error)
OnRequestError(c, e) ==
    LET d == [c EXCEPT !.requestError = TRUE]
    IN  IF SettlesOnTransaction(c.op) /\ ~c.handlers THEN d ELSE Reject(d, e)

\* an error event nobody cancels leaves the transaction running
AbortTransactionKeep(c) == [c EXCEPT !.requests = Tail(c.requests)]

\* no handler calls preventDefault(): the error event aborts the transaction,
\* which drops its changes and its requests still pending
AbortTransaction(c) ==
    [c EXCEPT !.state = "aborted", !.requests = << >>, !.work = c.before]

\* transaction.oncomplete
OnComplete(c) ==
    IF SettlesOnTransaction(c.op) /\ c.handlers
      THEN Resolve(c, IF c.op = "batchDelete" THEN << >>
                      ELSE IF c.isArray THEN c.results
                      ELSE IF c.results = << >> THEN << >> ELSE <<c.results[1]>>)
      ELSE c

\* the engine serves the next sub-request with success
RequestSuccess ==
    /\ call.state = "active"
    /\ call.requests # << >>
    /\ LET r == ServeRequest(call.work, Head(call.requests))
       IN  /\ r.error = ""
           /\ call' = OnRequestSuccess([call EXCEPT !.requests = Tail(call.requests),
                                                    !.work = r.store], r.result)
    /\ UNCHANGED <<helperVars, engineVars, historyVars, snapshot, importVars, portVars, pageVars>>

\* the engine reports an error for the next sub-request: a ConstraintError of
\* the store, or a failure of the engine's own
RequestError ==
    /\ call.state = "active"
    /\ call.requests # << >>
    /\ LET r == ServeRequest(call.work, Head(call.requests))
           e == IF r.error # "" THEN r.error ELSE "UnknownError"
       IN  call' = AbortTransaction(OnRequestError(call, e))
    /\ UNCHANGED <<helperVars, engineVars, historyVars, snapshot, importVars, portVars, pageVars>>

\* every sub-request is served: the transaction commits, transaction.oncomplete
TransactionComplete ==
    /\ call.state = "active"
    /\ call.requests = << >>
    /\ objectStores' = [objectStores EXCEPT ![call.store] = call.work]
    /\ call' = OnComplete([call EXCEPT !.state = "complete"])
    /\ UNCHANGED <<helperVars, idbVersion, connections, requestQueue, historyVars, snapshot,
                   importVars, portVars, pageVars>>

\* the commit fails: the transaction aborts with no error event on a request
\* (only the abort event, which no method listens to)
TransactionAbort ==
    /\ call.state = "active"
    /\ call.requests = << >>
    /\ call' = [call EXCEPT !.state = "aborted", !.work = call.before]
    /\ UNCHANGED <<helperVars, engineVars, historyVars, snapshot, importVars, portVars, pageVars>>

(***************************************************************************)
(* The CRUD engine's specification: the application's registry, opened.    *)
(***************************************************************************)
\* the registry the calls run against
OpenedRegistry ==
    MapPut(MapPut(EmptyMap, "records", StoreConfig(RecordsOptions)),
           "notes", StoreConfig(BareOptions))

\* the database the first init() creates from the registry
FreshStores == OnUpgradeNeeded(EmptyMap, OpenedRegistry)

\* the state after new IndexedDBHelper(name, 1), addStore(...) and a first init()
InitOpened ==
    /\ version = 1
    /\ stores = OpenedRegistry
    /\ db = 1
    /\ idbVersion = 1
    /\ objectStores = FreshStores
    /\ connections = {1}
    /\ requestQueue = << >>
    /\ opened = 1
    /\ returned = Null
    /\ upgradeDropped = FALSE
    /\ upgradeKept = FALSE
    /\ snapshot = NoSnapshot

InitCrud ==
    /\ InitOpened
    /\ call = NoCall
    /\ imp = NoImport
    /\ source = NoSource
    /\ file = NoFile
    /\ settled = NoSettled
    /\ view = NoView

NextCrud ==
    \/ \E n \in DeclaredNames, i \in Items : Add(n, <<i>>, FALSE)
    \/ \E n \in DeclaredNames, a \in Arrays : Add(n, a, TRUE)
    \/ \E n \in DeclaredNames, i \in Items : Put(n, <<i>>, FALSE)
    \/ \E n \in DeclaredNames, a \in Arrays : Put(n, a, TRUE)
    \/ \E n \in DeclaredNames, k \in 1..MaxKey : Get(n, k)
    \/ \E n \in DeclaredNames, k \in 1..MaxKey : Delete(n, k)
    \/ \E n \in DeclaredNames : GetAll(n)
    \/ \E n \in DeclaredNames : Count(n)
    \/ \E n \in DeclaredNames : Clear(n)
    \/ \E n \in DeclaredNames, ks \in KeyArrays : BatchDelete(n, ks)
    \/ RequestSuccess
    \/ RequestError
    \/ TransactionComplete
    \/ TransactionAbort

SpecCrud == InitCrud /\ [][NextCrud]_vars

(***************************************************************************)
(* Claims about the CRUD engine (under SpecCrud).                          *)
(***************************************************************************)
\* C1: when the engine reports an error for a sub-request of add(store,
\* [r1..rn]), the call rejects and, once its transaction has ended, the store
\* holds exactly what it held before the call: no record of the call.
C1_AddAtomic ==
    (call.op = "add" /\ call.requestError) =>
        /\ call.promise = "rejected"
        /\ call.state # "active" => objectStores[call.store] = call.before

\* C1 witness: a multi-record add whose first sub-request had succeeded when
\* a later one failed; the transaction has aborted.
C1_Witness ==
    /\ call.op = "add"
    /\ call.isArray
    /\ call.requestError
    /\ call.state = "aborted"
    /\ call.error = "ConstraintError"
    /\ Len(call.results) >= 1
    /\ objectStores[call.store].records # EmptyMap

\* C2: the promise of a CRUD call is resolved only when the completion event
\* of its transaction has fired.
C2_ResolvedAfterComplete ==
    call.promise = "resolved" => call.state = "complete"

(***************************************************************************)
(* The snapshot importer: importData(importData, options).  Every          *)
(* `await this.clear(...)` and `await this.put(storeName, item)` is a CRUD *)
(* call of its own; the importer goes on when the call's promise settles.  *)
(***************************************************************************)
\* what may go wrong in the engine during an awaited call: nothing, an error
\* event on the request, or a failure of the commit
Faults == {"none", "request", "commit"}

\* await this.put(storeName, item) for one record: the promise of put() and
\* the store afterwards (put() settles in transaction.oncomplete/onerror, so
\* it stays pending when the commit fails)
AwaitPut(st, item, fault) ==
    IF KeyError(st, item) THEN [promise |-> "rejected", error |-> "DataError", store |-> st]
    ELSE LET r == PutRequest(st, item)
         IN  IF r.error # "" THEN [promise |-> "rejected", error |-> r.error, store |-> st]
             ELSE IF fault = "request"
               THEN [promise |-> "rejected", error |-> "UnknownError", store |-> st]
             ELSE IF fault = "commit"
               THEN [promise |-> "pending", error |-> "", store |-> st]
             ELSE [promise |-> "resolved", error |-> "", store |-> r.store]

\* await this.clear(storeName): clear() resolves in request.onsuccess, before
\* the commit
AwaitClear(st, fault) ==
    IF fault = "request"
      THEN [promise |-> "rejected", error |-> "UnknownError", store |-> st]
    ELSE IF fault = "commit"
      THEN [promise |-> "resolved", error |-> "", store |-> st]
    ELSE [promise |-> "resolved", error |-> "", store |-> [st EXCEPT !.records = EmptyMap]]

\* the record is put as it is, a null key included
StripKeyNever(registry, storeName, item) == item

\* every auto-increment store gets fresh keys for all its records
StripKeyAlways(registry, storeName, item) ==
    IF storeName \in DOMAIN registry /\ registry[storeName].autoIncrement
      THEN [f \in (DOMAIN item) \ {registry[storeName].keyPath} |-> item[f]]
      ELSE item

\* if (storeConfig?.autoIncrement && storeConfig?.keyPath) and the item's key
\* is null or undefined: delete item[keyPath]
StripKey(registry, storeName, item) ==
    IF /\ storeName \in DOMAIN registry
       /\ registry[storeName].autoIncrement
       /\ registry[storeName].keyPath # ""
       /\ \/ registry[storeName].keyPath \notin DOMAIN item
          \/ item[registry[storeName].keyPath] = Null
      THEN [f \in (DOMAIN item) \ {registry[storeName].keyPath} |-> item[f]]
      ELSE item

\* an entry of result.errors: the message of a missing store ("missing"), of
\* a failed record ("record"), of a failed store ("store"), or error.message
\* pushed by the last catch ("import")
ErrorEntry(kind, storeName) == [kind |-> kind, store |-> storeName]

PushError(i, kind, storeName) ==
    [i EXCEPT !.result.errors = Append(@, ErrorEntry(kind, storeName))]

Inc(m, k) == MapPut(m, k, (IF k \in DOMAIN m THEN m[k] ELSE 0) + 1)

\* the last catch: result.success = false; result.errors.push(error.message); throw error
Thrown(i, e) ==
    [PushError(i, "import", "") EXCEPT !.pc = "thrown", !.error = e,
                                       !.result.success = FALSE]

\* a missing store makes the import fail when errors are not skipped
OnMissingStoreThrow(i) ==
    IF i.skipErrors
      THEN [PushError(i, "missing", Head(i.names)) EXCEPT
               !.names = Tail(@), !.order = Append(@, Head(i.names)),
               !.missing = @ \cup {Head(i.names)}]
      ELSE Thrown(PushError(i, "missing", Head(i.names)), "NotFoundError")

\* if (!db.objectStoreNames.contains(storeName)) { result.errors.push(error); continue }
OnMissingStore(i) ==
    [PushError(i, "missing", Head(i.names)) EXCEPT
        !.names = Tail(@), !.order = Append(@, Head(i.names)),
        !.missing = @ \cup {Head(i.names)}]

\* the catch of a store: result.errors.push(errorMsg); if (!skipErrors) throw error
OnStoreFailure(i, e) ==
    LET j == PushError(i, "store", Head(i.names))
    IN  IF ~i.skipErrors THEN Thrown(j, e)
        ELSE [j EXCEPT !.pc = "entry", !.names = Tail(@), !.data = << >>]

\* a record failure ends the store's loop whatever skipErrors is
OnRecordFailureStop(i, e) ==
    OnStoreFailure(PushError(i, "record", Head(i.names)), e)

\* the catch of a record goes on with the next record whatever skipErrors is
OnRecordFailureGoOn(i, e) ==
    [PushError(i, "record", Head(i.names)) EXCEPT !.data = Tail(@)]

\* the catch of a record: result.errors.push(errorMsg); if (!skipErrors) throw error
OnRecordFailure(i, e) ==
    LET j == PushError(i, "record", Head(i.names))
    IN  IF ~i.skipErrors THEN OnStoreFailure(j, e)
        ELSE [j EXCEPT !.data = Tail(@)]

\* the result keeps the success flag it was created with
FinalSuccessKept(result) == result.success

\* if (result.errors.length > 0) { result.success = false }
FinalSuccess(result) == IF Len(result.errors) > 0 THEN FALSE ELSE result.success

\* the orders in which Object.entries(importData.stores) may list its stores
SnapshotNames == {"ghost", "notes", "records"}

SnapshotOrders ==
    {<< >>} \cup {<<a>> : a \in SnapshotNames}
            \cup {o \in SnapshotNames \X SnapshotNames : o[1] # o[2]}

\* importData() without the check of the format: a snapshot without stores
\* is an empty one
ImportDataUnchecked(format, names, clearBeforeImport, skipErrors) ==
    /\ imp.pc = "idle"
    /\ db # Null
    /\ call.state # "active"
    /\ format # "ok" => names = << >>
    /\ imp' = [NoImport EXCEPT !.format = format,
                               !.clearBeforeImport = clearBeforeImport,
                               !.skipErrors = skipErrors,
                               !.pc = "entry", !.names = names]
    /\ UNCHANGED <<helperVars, engineVars, historyVars, snapshot, crudVars, portVars, pageVars>>

\* importData(importData, {clearBeforeImport, skipErrors}) up to its loop.
\* format is "ok" for a snapshot with a stores object, whose entries are
\* `names`; "null" and "noStores" are the snapshots the format check refuses.
ImportData(format, names, clearBeforeImport, skipErrors) ==
    /\ imp.pc = "idle"
    /\ db # Null
    /\ call.state # "active"
    /\ format # "ok" => names = << >>
    /\ LET i == [NoImport EXCEPT !.format = format,
                                 !.clearBeforeImport = clearBeforeImport,
                                 !.skipErrors = skipErrors]
       IN  imp' = IF format # "ok" THEN Thrown(i, "FormatError")
                  ELSE [i EXCEPT !.pc = "entry", !.names = names]
    /\ UNCHANGED <<helperVars, engineVars, historyVars, snapshot, crudVars, portVars, pageVars>>

\* the loop reaches an entry whose store is not in the database
ImportMissingStore ==
    /\ imp.pc = "entry"
    /\ imp.names # << >>
    /\ Head(imp.names) \notin DOMAIN objectStores
    /\ imp' = OnMissingStore(imp)
    /\ UNCHANGED <<helperVars, engineVars, historyVars, snapshot, crudVars, portVars, pageVars>>

\* the loop reaches an entry [storeName, data] whose store is in the database:
\* if (clearBeforeImport) await this.clear(storeName); successCount = 0
ImportStore(data, fault) ==
    /\ imp.pc = "entry"
    /\ imp.names # << >>
    /\ Head(imp.names) \in DOMAIN objectStores
    /\ ~imp.clearBeforeImport => fault = "none"
    /\ LET name    == Head(imp.names)
           cleared == IF imp.clearBeforeImport THEN AwaitClear(objectStores[name], fault)
                      ELSE [promise |-> "resolved", error |-> "", store |-> objectStores[name]]
           i       == [imp EXCEPT !.order = Append(@, name),
                                  !.total = MapPut(@, name, Len(data)),
                                  !.puts = MapPut(@, name, 0),
                                  !.failed = MapPut(@, name, 0)]
       IN  /\ objectStores' = [objectStores EXCEPT ![name] = cleared.store]
           /\ imp' = IF cleared.promise = "rejected"
                       THEN OnStoreFailure([i EXCEPT !.clearFailed = @ \cup {name}],
                                           cleared.error)
                       ELSE [i EXCEPT !.pc = "records", !.storeName = name,
                                      !.data = data, !.successCount = 0]
    /\ UNCHANGED <<helperVars, idbVersion, connections, requestQueue, historyVars,
                   snapshot, crudVars, portVars, pageVars>>

\* the catch of a record undoes the puts of its store when it rethrows
ImportRecordUndone(fault) ==
    /\ imp.pc = "records"
    /\ imp.data # << >>
    /\ LET name == imp.storeName
           item == StripKey(stores, name, Head(imp.data))
           out  == AwaitPut(objectStores[name], item, fault)
           i    == [imp EXCEPT !.puts = Inc(@, name)]
       IN  /\ objectStores' =
                 [objectStores EXCEPT ![name] =
                     IF out.promise = "rejected" /\ ~imp.skipErrors
                       THEN [out.store EXCEPT !.records = EmptyMap]
                       ELSE out.store]
           /\ imp' = CASE out.promise = "resolved" ->
                            [i EXCEPT !.data = Tail(@), !.successCount = @ + 1]
                       [] out.promise = "pending" -> [i EXCEPT !.pc = "hung"]
                       [] out.promise = "rejected" ->
                            OnRecordFailure([i EXCEPT !.failed = Inc(@, name)], out.error)
    /\ UNCHANGED <<helperVars, idbVersion, connections, requestQueue, historyVars,
                   snapshot, crudVars, portVars, pageVars>>

\* for (const item of data): strip a null key, await this.put(storeName, item),
\* successCount++, or the catch of the record
ImportRecord(fault) ==
    /\ imp.pc = "records"
    /\ imp.data # << >>
    /\ LET name == imp.storeName
           item == StripKey(stores, name, Head(imp.data))
           out  == AwaitPut(objectStores[name], item, fault)
           i    == [imp EXCEPT !.puts = Inc(@, name)]
       IN  /\ objectStores' = [objectStores EXCEPT ![name] = out.store]
           /\ imp' = CASE out.promise = "resolved" ->
                            [i EXCEPT !.data = Tail(@), !.successCount = @ + 1]
                       [] out.promise = "pending" -> [i EXCEPT !.pc = "hung"]
                       [] out.promise = "rejected" ->
                            OnRecordFailure([i EXCEPT !.failed = Inc(@, name)], out.error)
    /\ UNCHANGED <<helperVars, idbVersion, connections, requestQueue, historyVars,
                   snapshot, crudVars, portVars, pageVars>>

\* after the last record of an entry: result.imported[storeName] = successCount
ImportStoreDone ==
    /\ imp.pc = "records"
    /\ imp.data = << >>
    /\ imp' = [imp EXCEPT !.result.imported = MapPut(@, imp.storeName, imp.successCount),
                          !.names = Tail(@), !.pc = "entry"]
    /\ UNCHANGED <<helperVars, engineVars, historyVars, snapshot, crudVars, portVars, pageVars>>

\* after the last entry: result.success is settled, return result
ImportReturn ==
    /\ imp.pc = "entry"
    /\ imp.names = << >>
    /\ imp' = [imp EXCEPT !.result.success = FinalSuccess(imp.result), !.pc = "returned"]
    /\ UNCHANGED <<helperVars, engineVars, historyVars, snapshot, crudVars, portVars, pageVars>>

(***************************************************************************)
(* The importer's specification: one import into the opened database,      *)
(* fresh or holding a record in each store.                                *)
(***************************************************************************)
\* the database after put('records', KeyedItem1) and put('notes', KeyedItem1)
PopulatedStores ==
    [s \in DOMAIN FreshStores |-> PutRequest(FreshStores[s], KeyedItem1).store]

InitImport ==
    /\ version = 1
    /\ stores = OpenedRegistry
    /\ db = 1
    /\ idbVersion = 1
    /\ objectStores \in {FreshStores, PopulatedStores}
    /\ connections = {1}
    /\ requestQueue = << >>
    /\ opened = 1
    /\ returned = Null
    /\ upgradeDropped = FALSE
    /\ upgradeKept = FALSE
    /\ snapshot = NoSnapshot
    /\ call = NoCall
    /\ imp = NoImport
    /\ source = NoSource
    /\ file = NoFile
    /\ settled = NoSettled
    /\ view = NoView

NextImport ==
    \/ \E f \in {"ok", "null", "noStores"}, n \in SnapshotOrders, c \in BOOLEAN, k \in BOOLEAN :
          ImportData(f, n, c, k)
    \/ ImportMissingStore
    \/ \E d \in ArraysOf({KeyedItem1, KeyedItem2, NullKeyItem}), f \in Faults :
          ImportStore(d, f)
    \/ \E f \in Faults : ImportRecord(f)
    \/ ImportStoreDone
    \/ ImportReturn

SpecImport == InitImport /\ [][NextImport]_vars

(***************************************************************************)
(* Properties of the importer.                                             *)
(***************************************************************************)
Range(seq) == {seq[n] : n \in DOMAIN seq}

\* the entries the loop has reached whose store is not in the database
SkippedStores == {s \in Range(imp.order) : s \notin DOMAIN objectStores}

PutErrors == {"DataError", "ConstraintError", "UnknownError"}

\* C7: an entry of the snapshot whose store is not in the database never makes
\* importData throw, whatever skipErrors is: the step that meets it writes
\* nothing, appends one entry naming the store to errors and goes on with the
\* remaining entries; a result returned after such an entry has success = false
\* and an entry for each such store, and a thrown import was never thrown for a
\* missing store.
C7_MissingStoreSkipped ==
    /\ [][(imp.pc = "entry" /\ imp.names # << >>
             /\ Head(imp.names) \notin DOMAIN objectStores)
          => /\ imp'.pc = "entry"
             /\ imp'.names = Tail(imp.names)
             /\ objectStores' = objectStores
             /\ imp'.result.errors =
                  Append(imp.result.errors, ErrorEntry("missing", Head(imp.names)))
             /\ imp'.result.imported = imp.result.imported]_vars
    /\ [](imp.pc = "returned" =>
            /\ SkippedStores # {} => ~imp.result.success
            /\ \A s \in SkippedStores :
                 /\ ErrorEntry("missing", s) \in Range(imp.result.errors)
                 /\ s \notin DOMAIN imp.result.imported)
    /\ [](imp.pc = "thrown" => imp.error \in PutErrors \cup {"FormatError"})

C7_Witness ==
    /\ imp.pc = "returned"
    /\ ~imp.skipErrors
    /\ imp.order = <<"ghost", "records">>
    /\ ~imp.result.success
    /\ imp.result.errors = <<ErrorEntry("missing", "ghost")>>
    /\ "records" \in DOMAIN imp.result.imported
    /\ imp.result.imported["records"] = 2

\* the entries the loop has reached whose store is in the database
LiveStores == {s \in Range(imp.order) : s \in DOMAIN objectStores}

\* C8 as stated: with skipErrors, a returned result has, for every entry whose
\* store is in the database, a put for each of its records and an imported
\* count that, with the failed records, makes up the entry's records.
C8_EveryRecordAttempted ==
    (imp.pc = "returned" /\ imp.skipErrors) =>
        \A s \in LiveStores :
            /\ imp.puts[s] = imp.total[s]
            /\ s \in DOMAIN imp.result.imported
            /\ imp.result.imported[s] + imp.failed[s] = imp.total[s]

\* C8: with skipErrors, a failing record appends exactly one entry to errors
\* and the loop goes on with the next record; a returned result has, for every
\* entry whose store is in the database and was not refused its clear, a put
\* for each record and imported[store] + failed = the entry's records; a store
\* whose clear failed has one store-level error, no put and no imported count.
C8_RecordsAttemptedUnlessClearFailed ==
    /\ [][(imp.pc = "records" /\ imp.skipErrors /\ imp'.failed # imp.failed)
          => /\ imp'.pc = "records"
             /\ imp'.data = Tail(imp.data)
             /\ imp'.names = imp.names
             /\ imp'.result.errors =
                  Append(imp.result.errors, ErrorEntry("record", imp.storeName))
             /\ imp'.successCount = imp.successCount
             /\ objectStores' = objectStores]_vars
    /\ []((imp.pc = "returned" /\ imp.skipErrors) =>
            /\ \A s \in LiveStores \ imp.clearFailed :
                 /\ imp.puts[s] = imp.total[s]
                 /\ s \in DOMAIN imp.result.imported
                 /\ imp.result.imported[s] + imp.failed[s] = imp.total[s]
            /\ \A s \in imp.clearFailed :
                 /\ imp.clearBeforeImport
                 /\ imp.puts[s] = 0
                 /\ s \notin DOMAIN imp.result.imported
                 /\ ErrorEntry("store", s) \in Range(imp.result.errors))

C8_Witness ==
    /\ imp.pc = "returned"
    /\ imp.skipErrors
    /\ imp.order = <<"notes", "records">>
    /\ imp.clearFailed = {"notes"}
    /\ imp.total["notes"] = 2
    /\ imp.total["records"] = 2
    /\ imp.failed["records"] = 1
    /\ imp.result.imported["records"] = 1
    /\ Len(imp.result.errors) = 2

\* C9: without skipErrors the first put that fails ends the import: the step
\* leaves importData thrown with the put's own error, the failing record and
\* the remaining entries are left where they were and nothing is written; a
\* thrown import takes no further step, at most one put has failed, and no
\* result is returned after a failed put.
C9_FirstFailureThrows ==
    /\ [][(imp.pc = "records" /\ ~imp.skipErrors /\ imp'.failed # imp.failed)
          => /\ imp'.pc = "thrown"
             /\ imp'.error =
                  AwaitPut(objectStores[imp.storeName],
                           StripKey(stores, imp.storeName, Head(imp.data)),
                           "request").error
             /\ imp'.data = imp.data
             /\ imp'.names = imp.names
             /\ imp'.result.imported = imp.result.imported
             /\ objectStores' = objectStores]_vars
    /\ [][imp.pc # "thrown"]_vars
    /\ [](~imp.skipErrors =>
            /\ \A s \in DOMAIN imp.failed : imp.failed[s] <= 1
            /\ Cardinality({s \in DOMAIN imp.failed : imp.failed[s] > 0}) <= 1
            /\ (\E s \in DOMAIN imp.failed : imp.failed[s] > 0) => imp.pc = "thrown")

C9_Witness ==
    /\ imp.pc = "thrown"
    /\ ~imp.skipErrors
    /\ imp.error = "ConstraintError"
    /\ imp.successCount = 1
    /\ Len(imp.data) = 1
    /\ Len(imp.names) = 2
    /\ imp.puts[imp.storeName] = 2
    /\ imp.failed[imp.storeName] = 1

\* C10: a result that importData returns has success = false exactly when its
\* errors are not empty.
C10_SuccessIffNoErrors ==
    imp.pc = "returned" => (~imp.result.success <=> imp.result.errors # << >>)

C10_Witness ==
    /\ imp.pc = "returned"
    /\ ~imp.result.success
    /\ imp.result.errors = <<ErrorEntry("record", "records")>>
    /\ imp.result.imported = MapPut(EmptyMap, "records", 1)

(***************************************************************************)
(* The round trip of a snapshot: exportData() on a database, then          *)
(* importData(snapshot) on an empty database created from the same         *)
(* registry.                                                               *)
(***************************************************************************)
\* the registry of a page that declares only 'records': the store 'notes' of
\* the database was created by an earlier page and stays in place (no upgrade)
RecordsRegistry == MapPut(EmptyMap, "records", StoreConfig(RecordsOptions))

\* put(storeName, item) before the snapshot is taken
RoundTripPut(storeName, item) ==
    /\ source = NoSource
    /\ imp.pc = "idle"
    /\ PutOne(storeName, item)

\* exportData() on the database to copy
RoundTripExport ==
    /\ source = NoSource
    /\ imp.pc = "idle"
    /\ ExportData

\* the snapshot is carried to an empty database of the same registry:
\* deleteDatabase(), then init() creates the registry's stores
EmptyDatabase ==
    /\ snapshot.taken
    /\ source = NoSource
    /\ imp.pc = "idle"
    /\ source' = objectStores
    /\ objectStores' = OnUpgradeNeeded(EmptyMap, stores)
    /\ UNCHANGED <<helperVars, idbVersion, connections, requestQueue, historyVars,
                   snapshot, crudVars, importVars, file, pageVars>>

\* importData(snapshot, options): Object.entries(snapshot.stores) lists the
\* stores in the order exportData() inserted them
ImportSnapshot(clearBeforeImport, skipErrors) ==
    /\ source # NoSource
    /\ ImportData("ok", NamesInOrder(DOMAIN snapshot.stores), clearBeforeImport, skipErrors)

\* the loop reaches an entry of the snapshot whose store is in the database
ImportSnapshotStore ==
    /\ imp.pc = "entry"
    /\ imp.names # << >>
    /\ Head(imp.names) \in DOMAIN snapshot.stores
    /\ ImportStore(snapshot.stores[Head(imp.names)], "none")

InitRoundTrip ==
    /\ version = 1
    /\ stores \in {OpenedRegistry, RecordsRegistry}
    /\ db = 1
    /\ idbVersion = 1
    /\ objectStores = FreshStores
    /\ connections = {1}
    /\ requestQueue = << >>
    /\ opened = 1
    /\ returned = Null
    /\ upgradeDropped = FALSE
    /\ upgradeKept = FALSE
    /\ snapshot = NoSnapshot
    /\ call = NoCall
    /\ imp = NoImport
    /\ source = NoSource
    /\ file = NoFile
    /\ settled = NoSettled
    /\ view = NoView

NextRoundTrip ==
    \/ \E n \in DeclaredNames, i \in {KeyedItem1, KeyedItem2, UnkeyedItem} : RoundTripPut(n, i)
    \/ RoundTripExport
    \/ EmptyDatabase
    \/ \E c \in BOOLEAN, k \in BOOLEAN : ImportSnapshot(c, k)
    \/ ImportMissingStore
    \/ ImportSnapshotStore
    \/ ImportRecord("none")
    \/ ImportStoreDone
    \/ ImportReturn

SpecRoundTrip == InitRoundTrip /\ [][NextRoundTrip]_vars

JsValue(type, num, frac, text) == [type |-> type, num |-> num, frac |-> frac, text |-> text]

JsTrue == JsValue("boolean", 1, FALSE, "")

JsInt(n) == JsValue("number", n, FALSE, "")

JsReal == JsValue("number", 1, TRUE, "")

JsString(t) == JsValue("string", 0, FALSE, t)

JsNull == JsValue("null", 0, FALSE, "")

JsObject(t) == JsValue("object", 0, FALSE, t)

\* the strings, integers, reals and booleans stored in the field f
Scalars == {JsTrue, JsInt(1), JsReal, JsString("abc"), JsString("null"), JsString("1")}

\* a record of store st with key k and f = v; the same with one more field;
\* the same without f
FieldItem(st, k, v) == (st.keyPath :> k) @@ [f |-> v]

ExtraFieldItem(st, k, v) == (st.keyPath :> k) @@ [f |-> v, g |-> JsInt(1)]

KeyOnlyItem(st, k) == (st.keyPath :> k)

FieldItems(st) ==
    {FieldItem(st, k, v) : k \in 1..2, v \in Scalars}
        \cup {ExtraFieldItem(st, 2, JsInt(1)), KeyOnlyItem(st, 2)}

\* let type = 'TEXT'; number -> Number.isInteger ? 'INTEGER' : 'REAL'; boolean -> 'INTEGER'
ColumnType(v) ==
    IF v.type = "number" THEN (IF v.frac THEN "REAL" ELSE "INTEGER")
    ELSE IF v.type = "boolean" THEN "INTEGER"
    ELSE "TEXT"

\* the value bound to the INSERT: boolean -> 1/0, object or array -> JSON.stringify
BoundValue(v) ==
    IF v.type = "boolean" THEN JsInt(v.num)
    ELSE IF v.type = "object" THEN JsString(v.text)
    ELSE v

\* SQLite's conversions between text and numbers
NumberOfText(t) ==
    IF t = "1" THEN JsInt(1) ELSE IF t = "0" THEN JsInt(0)
    ELSE IF t = "1.5" THEN JsReal ELSE JsString(t)

TextOfNumber(v) == IF v.frac THEN "1.5" ELSE IF v.num = 1 THEN "1" ELSE "0"

\* the value SQLite stores in a column of the declared type (type affinity):
\* a number put in a TEXT column becomes its text, a text that is a number put
\* in an INTEGER or REAL column becomes that number
Affinity(type, v) ==
    IF v.type = "null" THEN v
    ELSE IF type = "TEXT"
      THEN (IF v.type = "number" THEN JsString(TextOfNumber(v)) ELSE v)
      ELSE (IF v.type = "string" THEN NumberOfText(v.text) ELSE v)

\* a store with a single record is skipped like an empty one
TablesOfSeveral(data) == {s \in DOMAIN data : Len(data[s]) > 1}

\* if (records.length === 0) continue
TablesOf(data) == {s \in DOMAIN data : Len(data[s]) > 0}

\* CREATE TABLE from records[0]: its fields are the columns, typed after its
\* values; the column named as the registry's keyPath is the PRIMARY KEY
CreateTable(st, registry, storeName, sampleRecord) ==
    [columns |-> DOMAIN sampleRecord,
     types   |-> [c \in DOMAIN sampleRecord |->
                    IF c = st.keyPath THEN "INTEGER" ELSE ColumnType(sampleRecord[c])],
     primary |-> {c \in DOMAIN sampleRecord :
                    storeName \in DOMAIN registry /\ c = registry[storeName].keyPath},
     rows    |-> << >>]

\* INSERT INTO [storeName] (the record's own fields) VALUES (...): SQLite
\* refuses a column the table does not have; a column left out is NULL
InsertFails(table, record) == ~(DOMAIN record \subseteq table.columns)

InsertRow(st, table, record) ==
    [table EXCEPT !.rows = Append(@,
        [c \in table.columns |->
            IF c \notin DOMAIN record THEN JsNull
            ELSE IF c = st.keyPath THEN JsInt(record[c])
            ELSE Affinity(table.types[c], BoundValue(record[c]))])]

RECURSIVE InsertRows(_, _, _)
InsertRows(st, table, records) ==
    IF records = << >> THEN table
    ELSE InsertRows(st, InsertRow(st, table, Head(records)), Tail(records))

\* the tables of the file for the snapshot `data`
WriteTables(os, registry, data) ==
    [s \in TablesOf(data) |->
        InsertRows(os[s], CreateTable(os[s], registry, s, data[s][1]), data[s])]

\* sqlDb.run throws for one of the records
WriteFails(os, registry, data) ==
    \E s \in TablesOf(data) : \E n \in 1..Len(data[s]) :
        InsertFails(CreateTable(os[s], registry, s, data[s][1]), data[s][n])

\* JSON.parse(value) of a text column: the value is replaced when the text
\* parses to something whose typeof is 'object' (an object, an array, null)
ParsedText(v) ==
    IF v.type # "string" THEN v
    ELSE IF v.text = "null" THEN JsNull
    ELSE IF v.text = "[1]" THEN JsObject("[1]")
    ELSE v

\* rows.map(row => obj): the record of a row
RecordOfRow(st, table, row) ==
    [c \in table.columns |->
        IF c = st.keyPath /\ row[c].type = "number" THEN row[c].num
        ELSE ParsedText(row[c])]

\* exportToFile(): the loader, exportData(), the tables, the download
ExportToFile(loaded) ==
    /\ db # Null
    /\ file.phase = "none"
    /\ imp.pc = "idle"
    /\ LET data == [s \in ExportedNames(objectStores) |-> GetAllRequest(objectStores[s])]
       IN  file' =
             IF ~loaded
               THEN [NoFile EXCEPT !.phase = "exportFailed", !.error = "LoaderError"]
             ELSE IF WriteFails(objectStores, stores, data)
               THEN [NoFile EXCEPT !.phase = "exportFailed", !.error = "SqlError",
                                   !.exported = data]
             ELSE [NoFile EXCEPT !.phase = "written", !.exported = data,
                                 !.tables = WriteTables(objectStores, stores, data)]
    /\ UNCHANGED <<helperVars, engineVars, historyVars, snapshot, crudVars, importVars, source, pageVars>>

\* if (result.length > 0 && result[0].values.length > 0): the tables that get
\* an entry in importData.stores
TablesWithRows(tables) == {t \in DOMAIN tables : Len(tables[t].rows) > 0}

\* _importFromSQLite() that clears the stores before it loads the engine
ReadFileCleared(loaded) ==
    /\ db # Null
    /\ file.phase = "written"
    /\ objectStores' = [s \in DOMAIN objectStores |->
                           [objectStores[s] EXCEPT !.records = EmptyMap]]
    /\ file' =
         IF ~loaded THEN [file EXCEPT !.phase = "rejected", !.error = "LoaderError"]
         ELSE IF DOMAIN file.tables = {}
           THEN [file EXCEPT !.phase = "rejected", !.error = "FormatError"]
         ELSE [file EXCEPT !.phase = "rebuilt",
                  !.rebuilt = [t \in TablesWithRows(file.tables) |->
                      [n \in 1..Len(file.tables[t].rows) |->
                          RecordOfRow(objectStores[t], file.tables[t], file.tables[t].rows[n])]]]
    /\ UNCHANGED <<helperVars, idbVersion, connections, requestQueue, historyVars, snapshot,
                   crudVars, importVars, source, pageVars>>

\* _importFromSQLite() up to sqlDb.close(): the loader, the tables of the
\* file, the snapshot rebuilt from their rows
ReadFile(loaded) ==
    /\ db # Null
    /\ file.phase = "written"
    /\ file' =
         IF ~loaded THEN [file EXCEPT !.phase = "rejected", !.error = "LoaderError"]
         ELSE IF DOMAIN file.tables = {}
           THEN [file EXCEPT !.phase = "rejected", !.error = "FormatError"]
         ELSE [file EXCEPT !.phase = "rebuilt",
                  !.rebuilt = [t \in TablesWithRows(file.tables) |->
                      [n \in 1..Len(file.tables[t].rows) |->
                          RecordOfRow(objectStores[t], file.tables[t], file.tables[t].rows[n])]]]
    /\ UNCHANGED <<helperVars, engineVars, historyVars, snapshot, crudVars, importVars, source, pageVars>>

\* _importFromSQLite(): await this.importData(importData, options)
ImportRebuilt(clearBeforeImport, skipErrors) ==
    /\ file.phase = "rebuilt"
    /\ ImportData("ok", NamesInOrder(DOMAIN file.rebuilt), clearBeforeImport, skipErrors)

ImportRebuiltStore ==
    /\ file.phase = "rebuilt"
    /\ imp.pc = "entry"
    /\ imp.names # << >>
    /\ ImportStore(file.rebuilt[Head(imp.names)], "none")

\* put(storeName, record) before the export
RelationalPut(storeName, item) ==
    /\ file.phase = "none"
    /\ PutOne(storeName, item)

NextRelational ==
    \/ \E i \in FieldItems(FreshStores["records"]) : RelationalPut("records", i)
    \/ RelationalPut("notes", FieldItem(FreshStores["notes"], 1, JsTrue))
    \/ \E l \in BOOLEAN : ExportToFile(l)
    \/ \E l \in BOOLEAN : ReadFile(l)
    \/ \E c \in BOOLEAN, k \in BOOLEAN : ImportRebuilt(c, k)
    \/ ImportRebuiltStore
    \/ ImportRecord("none")
    \/ ImportStoreDone
    \/ ImportReturn

SpecRelational == InitCrud /\ [][NextRelational]_vars

(***************************************************************************)
(* Properties of the relational file.                                      *)
(***************************************************************************)
\* every record of the sequence has the fields of the first one
SameFields(records) ==
    \A n \in 1..Len(records) : DOMAIN records[n] = DOMAIN records[1]

\* C12: for every exported store whose records all have the same fields (the
\* values being strings, integers, reals and booleans), the records rebuilt
\* from the file equal the exported records, field by field, value and type.
C12_RelationalRoundTrip ==
    file.phase = "rebuilt" =>
        \A s \in DOMAIN file.rebuilt :
            SameFields(file.exported[s]) => file.rebuilt[s] = file.exported[s]

\* a record after the first has a field the first record lacks
HasExtraField(records) ==
    \E n \in 1..Len(records) : ~(DOMAIN records[n] \subseteq DOMAIN records[1])

\* C13: when a later record of an exported store has a field that the first
\* lacks, exportToFile completes: the store's table has the first record's
\* fields as columns and one row for every record.
C13_LossyExportCompletes ==
    \A s \in DOMAIN file.exported :
        HasExtraField(file.exported[s]) =>
            /\ file.phase # "exportFailed"
            /\ s \in DOMAIN file.tables
            /\ file.tables[s].columns = DOMAIN file.exported[s][1]
            /\ Len(file.tables[s].rows) = Len(file.exported[s])

\* the stores that held records when the file was exported
NonEmptyStores == {s \in DOMAIN file.exported : Len(file.exported[s]) > 0}

\* C14 as stated: the file has a table exactly for the non-empty stores, and
\* reading it back succeeds, the rebuilt snapshot having exactly the non-empty
\* stores as keys, also when every store was empty.
C14_EmptyStoresSkipped ==
    /\ file.phase \in {"written", "rebuilt", "rejected"} =>
          DOMAIN file.tables = NonEmptyStores
    /\ (file.phase \in {"rebuilt", "rejected"} /\ file.error # "LoaderError") =>
          /\ file.phase = "rebuilt"
          /\ DOMAIN file.rebuilt = NonEmptyStores

\* C14: a file that exportToFile writes has a table exactly for the non-empty
\* stores.  When some store was non-empty, reading it back rebuilds a snapshot
\* whose keys are exactly the non-empty stores, with a record for every
\* exported record, and the import of it returns success = true with an
\* imported count for exactly those stores.  When every store was empty the
\* file has no table and reading it back is rejected with a format error
\* before importData is called, leaving the database as it was.
C14_EmptyStoresSkippedUnlessAllEmpty ==
    /\ file.phase \in {"written", "rebuilt", "rejected"} =>
          DOMAIN file.tables = NonEmptyStores
    /\ file.phase = "rebuilt" =>
          /\ NonEmptyStores # {}
          /\ DOMAIN file.rebuilt = NonEmptyStores
          /\ \A s \in NonEmptyStores : Len(file.rebuilt[s]) = Len(file.exported[s])
          /\ imp.pc \in {"idle", "entry", "records", "returned"}
          /\ imp.pc = "returned" =>
                /\ imp.result.success
                /\ DOMAIN imp.result.imported = NonEmptyStores
    /\ (file.phase = "rejected" /\ file.error # "LoaderError") =>
          /\ NonEmptyStores = {}
          /\ file.error = "FormatError"
          /\ imp = NoImport
          /\ \A s \in DOMAIN objectStores : objectStores[s].records = EmptyMap

C14_Witness ==
    /\ file.phase = "rebuilt"
    /\ Len(file.exported["records"]) = 2
    /\ file.exported["notes"] = << >>
    /\ DOMAIN file.tables = {"records"}
    /\ DOMAIN file.rebuilt = {"records"}
    /\ imp.pc = "returned"
    /\ imp.result.success
    /\ imp.result.imported = MapPut(EmptyMap, "records", 2)

(***************************************************************************)
(* More properties of the importer (under SpecImport).                     *)
(***************************************************************************)
\* the record the importer is about to put has no usable primary key
LacksKey(st, item) == st.keyPath \notin DOMAIN item \/ item[st.keyPath] = Null

\* C15: in a store declared auto-increment, a record whose key field is null
\* or absent is put without that field (the put is never refused for its
\* key), and when the put succeeds the record is stored, with the key field
\* set, under a key that was not in the store, every other record staying as
\* it was; a record that carries a key is put as it is and is afterwards the
\* record under that key, every other record staying as it was.
C15_AutoIncrementImport ==
    /\ []((imp.pc = "records" /\ imp.data # << >>
             /\ imp.storeName \in DOMAIN stores /\ stores[imp.storeName].autoIncrement
             /\ LacksKey(objectStores[imp.storeName], Head(imp.data)))
          => LET item == StripKey(stores, imp.storeName, Head(imp.data))
             IN  /\ stores[imp.storeName].keyPath \notin DOMAIN item
                 /\ ~KeyError(objectStores[imp.storeName], item))
    /\ [][(imp.pc = "records" /\ imp.data # << >>
             /\ imp.storeName \in DOMAIN stores /\ stores[imp.storeName].autoIncrement
             /\ imp'.successCount = imp.successCount + 1)
          => LET st   == objectStores[imp.storeName]
                 new  == objectStores'[imp.storeName].records
                 item == Head(imp.data)
                 kp   == st.keyPath
             IN  IF LacksKey(st, item)
                   THEN \E k \in (DOMAIN new) \ (DOMAIN st.records) :
                          /\ DOMAIN new = (DOMAIN st.records) \cup {k}
                          /\ \A j \in DOMAIN st.records : new[j] = st.records[j]
                          /\ new[k][kp] = k
                          /\ \A fld \in (DOMAIN item) \ {kp} : new[k][fld] = item[fld]
                          /\ DOMAIN new[k] = (DOMAIN item) \cup {kp}
                   ELSE /\ new = MapPut(st.records, item[kp], item)
                        /\ \A j \in (DOMAIN st.records) \ {item[kp]} :
                              new[j] = st.records[j]]_vars

C15_Witness ==
    /\ imp.pc = "records"
    /\ imp.storeName = "records"
    /\ ~imp.clearBeforeImport
    /\ imp.successCount = 1
    /\ imp.total["records"] = 1
    /\ objectStores["records"].records =
          MapPut(MapPut(EmptyMap, 1, KeyedItem1), 2, [uid |-> 2, id |-> Null, date |-> 2])

(***************************************************************************)
(* More properties of the CRUD engine (under SpecCrud).                    *)
(***************************************************************************)
\* the record the engine stores for item under key k in a store of key path kp
StoredAs(kp, k, item) == (kp :> k) @@ item

\* C16: every sub-request of add() that succeeds consumes the next input
\* record, stores it under a key that was free and appends that key to the
\* results, so the results are the keys of the input records in input order;
\* add() resolves only when every sub-request has been served, with the
\* results (with the only key for a single record), all of them keys of the
\* store and pairwise different; a sub-request for a record whose key is in
\* the store already rejects the pending call with ConstraintError.
C16_AddReturnsKeys ==
    /\ [][(call.op = "add" /\ call.state = "active" /\ call.requests # << >>
             /\ Len(call'.results) = Len(call.results) + 1)
          => LET item == Head(call.requests).arg
                 k    == call'.results[Len(call'.results)]
                 kp   == call.work.keyPath
             IN  /\ call'.requests = Tail(call.requests)
                 /\ SubSeq(call'.results, 1, Len(call.results)) = call.results
                 /\ kp \in DOMAIN item => item[kp] = k
                 /\ k \notin DOMAIN call.work.records
                 /\ call'.work.records = MapPut(call.work.records, k, StoredAs(kp, k, item))]_vars
    /\ [][(call.op = "add" /\ call.promise = "pending" /\ call'.promise = "resolved")
          => /\ call.requests = << >>
             /\ call'.state = "complete"
             /\ call'.results = call.results
             /\ call'.value = IF call.isArray THEN call.results ELSE <<call.results[1]>>
             /\ objectStores'[call.store] = call.work]_vars
    /\ []((call.op = "add" /\ call.promise = "resolved") =>
            /\ \A i \in 1..Len(call.results) :
                 call.results[i] \in DOMAIN objectStores[call.store].records
            /\ \A i, j \in 1..Len(call.results) :
                 i # j => call.results[i] # call.results[j]
            /\ ~call.isArray => Len(call.results) = 1)
    /\ [][(call.op = "add" /\ call.state = "active" /\ call.requests # << >>
             /\ call.promise = "pending"
             /\ call.work.keyPath \in DOMAIN Head(call.requests).arg
             /\ Head(call.requests).arg[call.work.keyPath] \in DOMAIN call.work.records)
          => /\ call'.promise = "rejected"
             /\ call'.error = "ConstraintError"
             /\ call'.state = "aborted"]_vars

C16_Witness ==
    /\ call.op = "add"
    /\ call.store = "records"
    /\ call.isArray
    /\ call.promise = "resolved"
    /\ call.value = <<1, 2>>
    /\ objectStores["records"].records[1] = KeyedItem1
    /\ objectStores["records"].records[2] = [uid |-> 2, date |-> 2]

\* C17: in an auto-increment store every key of the store is below the key
\* generator and the generator never goes back, whatever is added, put or
\* deleted; a record added without a key gets the generator's value, which no
\* earlier add has returned, and is stored as the record extended with that
\* key; when add() resolves, its keys are below the committed generator and
\* the store holds under them what was stored; get(store, key) resolves with
\* the record the store holds under key.
C17_GeneratedKeysUnique ==
    /\ [](\A s \in DOMAIN objectStores :
            objectStores[s].autoIncrement =>
                \A k \in DOMAIN objectStores[s].records : k < objectStores[s].keyGenerator)
    /\ [][\A s \in DOMAIN objectStores :
            objectStores'[s].keyGenerator >= objectStores[s].keyGenerator]_vars
    /\ [][(call.op = "add" /\ call.state = "active" /\ call.requests # << >>
             /\ Len(call'.results) = Len(call.results) + 1
             /\ call.work.keyPath \notin DOMAIN Head(call.requests).arg)
          => LET item == Head(call.requests).arg
                 k    == call'.results[Len(call'.results)]
             IN  /\ call.work.autoIncrement
                 /\ k = call.work.keyGenerator
                 /\ k >= objectStores[call.store].keyGenerator
                 /\ \A j \in DOMAIN call.work.records : j < k
                 /\ call'.work.keyGenerator = k + 1
                 /\ call'.work.records[k] = StoredAs(call.work.keyPath, k, item)]_vars
    /\ [][(call.op = "add" /\ call.promise = "pending" /\ call'.promise = "resolved"
             /\ call.work.autoIncrement)
          => \A i \in 1..Len(call.results) :
                /\ call.results[i] < objectStores'[call.store].keyGenerator
                /\ call.results[i] \in DOMAIN objectStores'[call.store].records
                /\ objectStores'[call.store].records[call.results[i]]
                     = call.work.records[call.results[i]]]_vars
    /\ [][(call.op = "get" /\ call.promise = "pending" /\ call'.promise = "resolved")
          => LET key == Head(call.requests).arg
                 st  == objectStores[call.store]
             IN  IF key \in DOMAIN st.records
                   THEN call'.value = st.records[key]
                   ELSE call'.value = Null]_vars

\* C17 witness: key 1 has been used and deleted; the record added afterwards
\* without a key was given key 2, and get(records, 2) has returned it
C17_Witness ==
    /\ call.op = "get"
    /\ call.store = "records"
    /\ call.promise = "resolved"
    /\ call.state = "complete"
    /\ DOMAIN objectStores["records"].records = {2}
    /\ objectStores["records"].keyGenerator = 3
    /\ objectStores["records"].records[2] = [uid |-> 2, date |-> 2]

\* C20: for every store and every record r that carries a key, a put of r
\* that succeeds can be repeated: the second put succeeds, returns the same
\* key and leaves the store as the first put left it; and a put() that has
\* resolved for a record the store already held under its key has left the
\* store as it was before the call.
C20_PutIdempotent ==
    /\ \A s \in DOMAIN objectStores : \A r \in {KeyedItem1, KeyedItem2} :
          LET once == PutRequest(objectStores[s], r)
          IN  once.error = "" =>
                LET twice == PutRequest(once.store, r)
                IN  /\ twice.error = ""
                    /\ twice.key = once.key
                    /\ twice.store = once.store
    /\ (call.op = "put" /\ ~call.isArray /\ call.promise = "resolved") =>
          LET k == call.value[1]
          IN  /\ k \in DOMAIN objectStores[call.store].records
              /\ (k \in DOMAIN call.before.records
                    /\ call.before.records[k] = objectStores[call.store].records[k])
                 => objectStores[call.store] = call.before

\* C20 witness: put(records, KeyedItem1) has resolved with key 1 on a store
\* that held KeyedItem1 under key 1 already, next to another record
C20_Witness ==
    /\ call.op = "put"
    /\ call.store = "records"
    /\ ~call.isArray
    /\ call.promise = "resolved"
    /\ call.value = <<1>>
    /\ {1, 2} \subseteq DOMAIN call.before.records
    /\ {1, 2} \subseteq DOMAIN objectStores["records"].records
    /\ call.before.records[1] = KeyedItem1
    /\ objectStores["records"].records[1] = KeyedItem1
    /\ objectStores["records"] = call.before

(***************************************************************************)
(* Queries: getByIndex and cursor on stores that hold records.             *)
(***************************************************************************)
\* a record without the indexed field
UndatedItem == [uid |-> 3, id |-> 3]

\* directions of IDBCursor
Directions == {"next", "prev"}

\* options.range: none, IDBKeyRange.lowerBound(2), IDBKeyRange.upperBound(2)
Ranges == {<<Null, Null>>, <<2, Null>>, <<Null, 2>>}

\* the callbacks, as the set of keys for whose record they return false
Callbacks == {{}, {1}, {2}}

\* a record is put while no call is in flight
QueryPut(storeName, item) ==
    /\ call.state # "active"
    /\ PutOne(storeName, item)

NextQuery ==
    \/ \E i \in {KeyedItem1, KeyedItem2, UnkeyedItem, UndatedItem} : QueryPut("records", i)
    \/ QueryPut("notes", KeyedItem2)
    \/ \E n \in DeclaredNames, x \in {"date", "title"}, v \in 1..3 : GetByIndex(n, x, v)
    \/ \E n \in DeclaredNames, d \in Directions, r \in Ranges, cb \in Callbacks :
          Cursor(n, d, r[1], r[2], cb)
    \/ RequestSuccess
    \/ RequestError
    \/ TransactionComplete
    \/ TransactionAbort

SpecQuery == InitCrud /\ [][NextQuery]_vars

\* the primary key of a record of the store the call is on; call.work is the
\* store as the transaction of the call read it
QueryKey(record) == record[call.work.keyPath]

\* the keys of the store inside the range of the cursor
QueryRange ==
    {k \in DOMAIN call.work.records :
        /\ call.options.lower # Null => k >= call.options.lower
        /\ call.options.upper # Null => k <= call.options.upper}

\* a cursor() call has resolved
CursorResolved == call.op = "cursor" /\ call.promise = "resolved"

\* the keys the callback was called for and did not return false for
QueryKept == SelectSeq(call.visited, LAMBDA k : k \notin call.options.callback)

\* C18: cursor() calls the callback for every record of the range exactly
\* once, in the requested direction, whatever the callback returns, and
\* resolves once the records are exhausted with the records for which the
\* callback did not return false, in the order of the traversal.
C18_CursorVisitsAll ==
    CursorResolved =>
        /\ {call.visited[i] : i \in 1..Len(call.visited)} = QueryRange
        /\ \A i, j \in 1..Len(call.visited) :
              i < j => IF call.options.direction \in {"next", "nextunique"}
                         THEN call.visited[i] < call.visited[j]
                         ELSE call.visited[i] > call.visited[j]
        /\ Len(call.value) = Len(QueryKept)
        /\ \A i \in 1..Len(QueryKept) :
              call.value[i] = call.work.records[QueryKept[i]]

\* a backward cursor over two or more records has resolved after its
\* callback returned false for the first record it was called for
C18_Witness ==
    /\ CursorResolved
    /\ call.options.direction = "prev"
    /\ Len(call.visited) >= 2
    /\ call.visited[1] \in call.options.callback
    /\ Len(call.value) >= 1

\* a getByIndex() call has resolved
IndexResolved == call.op = "getByIndex" /\ call.promise = "resolved"

\* the record holds the value of the call in the field of the index
QueryMatches(record) ==
    LET ix == CHOOSE i \in call.work.indexes : i.name = call.options.index
    IN  ix.keyPath \in DOMAIN record /\ record[ix.keyPath] = call.options.value

\* C19: getByIndex(store, index, value) resolves with exactly the records of
\* the store whose indexed field equals value, in ascending order of their
\* primary keys, and with the empty sequence when no record matches.
C19_GetByIndexMatches ==
    IndexResolved =>
        LET records == call.work.records
            value   == call.value
        IN  /\ \A i \in 1..Len(value) :
                  /\ QueryKey(value[i]) \in DOMAIN records
                  /\ records[QueryKey(value[i])] = value[i]
                  /\ QueryMatches(value[i])
            /\ \A k \in DOMAIN records :
                  QueryMatches(records[k]) => \E i \in 1..Len(value) : value[i] = records[k]
            /\ \A i, j \in 1..Len(value) : i < j => QueryKey(value[i]) < QueryKey(value[j])

\* getByIndex resolved with two records of a store that holds a third record
\* with another value of the indexed field
C19_Witness ==
    /\ IndexResolved
    /\ Len(call.value) = 2
    /\ \E k \in DOMAIN call.work.records :
          ~QueryMatches(call.work.records[k])

\* getByIndex resolved with the empty sequence on a store that holds records
C19_WitnessNone ==
    /\ IndexResolved
    /\ call.value = << >>
    /\ call.work.records # EmptyMap

(***************************************************************************)
(* Claims about delete and batchDelete (under SpecCrud).                   *)
(***************************************************************************)
\* the call is a delete() or a batchDelete()
Deleting == call.op \in {"delete", "batchDelete"}

\* C21: delete(store, key) and batchDelete(store, keys) meet no error of the
\* store for an absent key; every delete served removes the record under its
\* key, if there is one, and no other; and when the transaction of a call
\* that resolves has ended, the store holds what the deletes served have left.
C21_DeleteIdempotent ==
    [][Deleting /\ call.state = "active" =>
          /\ call.requests # << >> =>
                ServeRequest(call.work, Head(call.requests)).error = ""
          /\ (call'.state = "active" /\ call.requests # << >>
                /\ call'.requests = Tail(call.requests)) =>
                LET k == Head(call.requests).arg
                IN  /\ DOMAIN call'.work.records = DOMAIN call.work.records \ {k}
                    /\ \A j \in DOMAIN call'.work.records :
                          call'.work.records[j] = call.work.records[j]
          /\ (call'.state # "active" /\ call'.promise = "resolved") =>
                objectStores'[call.store] = call.work]_vars

\* C26: when issuing the sub-request of an item of add(store, [r1..rn]) or
\* put(store, [r1..rn]) throws, the call rejects and, once its transaction has
\* ended, the store holds what it held before the call: none of the records
\* whose sub-requests were issued before.
C26_IssueErrorAtomic ==
    (call.op \in {"add", "put"} /\ call.error = "DataError") =>
        /\ call.promise = "rejected"
        /\ call.state # "active" => objectStores[call.store] = call.before

(***************************************************************************)
(* What an import leaves in the stores (under SpecImport).                 *)
(***************************************************************************)
\* the step begins the entry of a store of the database and goes on to its records
EntryBegun == imp.pc = "entry" /\ imp'.pc = "records"

\* the step has put the first of the records left
RecordPut == imp.pc = "records" /\ imp'.pc = "records" /\ imp'.successCount > imp.successCount

\* every store but s is left as it is
OthersKept(s) ==
    /\ DOMAIN objectStores' = DOMAIN objectStores
    /\ \A t \in DOMAIN objectStores \ {s} : objectStores'[t] = objectStores[t]

\* C27: an import that succeeds leaves in every store it names the records
\* of the snapshot and, with clearBeforeImport, nothing else: when the entry of
\* a store begins, the store is empty with clearBeforeImport and as it was
\* without; every record put is stored under its key, replacing the record of
\* that key, next to the records already there; no step changes another store.
C27_ClearBeforeImport ==
    [][/\ EntryBegun =>
             /\ OthersKept(imp'.storeName)
             /\ objectStores'[imp'.storeName].records =
                  IF imp.clearBeforeImport THEN EmptyMap
                  ELSE objectStores[imp'.storeName].records
       /\ RecordPut =>
             LET s      == imp.storeName
                 before == objectStores[s].records
                 after  == objectStores'[s].records
                 item   == Head(imp.data)
                 kp     == objectStores[s].keyPath
             IN  /\ OthersKept(s)
                 /\ \E k \in DOMAIN after :
                       /\ ~LacksKey(objectStores[s], item) => k = item[kp]
                       /\ LacksKey(objectStores[s], item) => k \notin DOMAIN before
                       /\ DOMAIN after = DOMAIN before \cup {k}
                       /\ after[k] = StoredAs(kp, k, item)
                       /\ \A j \in DOMAIN before \ {k} : after[j] = before[j]
       /\ (~EntryBegun /\ ~RecordPut) => objectStores' = objectStores]_vars

\* C28: an import that rejects because errors are not skipped undoes
\* nothing: the step that rejects and the steps after it leave every store as
\* it is, so the records put before the failure stay, in the store of the
\* failing record and in the stores before it, and a store cleared stays
\* without its former records.
C28_NoRollback ==
    [][/\ (~imp.skipErrors /\ imp.pc \in {"entry", "records"} /\ imp'.pc = "thrown") =>
             objectStores' = objectStores
       /\ imp.pc = "thrown" => objectStores' = objectStores
       /\ (~imp'.skipErrors /\ imp'.pc = "thrown") =>
             /\ imp'.successCount > 0 =>
                   objectStores'[imp'.storeName].records # EmptyMap
             /\ \A s \in DOMAIN imp'.result.imported :
                   imp'.result.imported[s] > 0 => objectStores'[s].records # EmptyMap]_vars

\* an import with clearBeforeImport and without skipErrors has rejected at a
\* record of its second store, after a put in that store: the record stays,
\* as does the record imported into the first store, in place of the former one
C28_Witness ==
    /\ imp.pc = "thrown"
    /\ ~imp.skipErrors
    /\ imp.clearBeforeImport
    /\ Len(imp.order) = 2
    /\ imp.successCount > 0
    /\ imp.clearFailed = {}
    /\ imp.result.imported # EmptyMap
    /\ \A s \in DOMAIN objectStores :
          /\ DOMAIN objectStores[s].records = {2}
          /\ objectStores[s].records[2] = KeyedItem2

\* C29: once the transaction of an add, put or batchDelete call has ended,
\* the promise of the call has settled: resolved when the transaction has
\* completed, rejected when it has aborted, with or without an error event on
\* one of its sub-requests before.
C29_SettlesWithTransaction ==
    (SettlesOnTransaction(call.op) /\ call.state # "active") =>
        /\ call.promise # "pending"
        /\ call.state = "aborted" => call.promise = "rejected"
        /\ (call.state = "complete" /\ call.handlers) => call.promise = "resolved"

(***************************************************************************)
(* Imports that are refused and a loader that is not available: an export  *)
(* to a relational file, records put, the file imported, a snapshot        *)
(* imported, and CRUD calls in between.                                    *)
(***************************************************************************)
\* the records put and imported
PortItems ==
    {FieldItem(FreshStores["records"], 1, JsInt(1)),
     FieldItem(FreshStores["records"], 2, JsString("abc"))}

\* no importData() is running
ImportIdle == imp.pc \notin {"entry", "records"}

\* put('records', item) and getAll('records') while no import is running
PortPut(item) == ImportIdle /\ Put("records", <<item>>, FALSE)

PortGetAll == ImportIdle /\ GetAll("records")

\* importData(snapshot, options) of a snapshot, or of what is no snapshot
PortImportData(format, names, clearBeforeImport, skipErrors) ==
    /\ file.phase # "rebuilt"
    /\ ImportData(format, names, clearBeforeImport, skipErrors)

\* an entry of the snapshot, or of the snapshot rebuilt from the file
PortImportStore(data) ==
    IF file.phase = "rebuilt"
      THEN ImportRebuiltStore
      ELSE ImportStore(data, "none")

NextPort ==
    \/ \E i \in PortItems : PortPut(i)
    \/ PortGetAll
    \/ RequestSuccess
    \/ RequestError
    \/ TransactionComplete
    \/ TransactionAbort
    \/ \E l \in BOOLEAN : ExportToFile(l)
    \/ \E l \in BOOLEAN : ReadFile(l)
    \/ \E c \in BOOLEAN, k \in BOOLEAN : ImportRebuilt(c, k)
    \/ \E f \in {"ok", "null", "noStores"}, n \in {<< >>, <<"records">>},
          c \in BOOLEAN, k \in BOOLEAN : PortImportData(f, n, c, k)
    \/ \E d \in ArraysOf(PortItems) : PortImportStore(d)
    \/ ImportRecord("none")
    \/ ImportStoreDone
    \/ ImportReturn

SpecPort == InitCrud /\ [][NextPort]_vars

\* C24: importData() of null or of a snapshot without stores is rejected with
\* the format error, whatever skipErrors and clearBeforeImport are, and the
\* import of a file without tables is rejected likewise, before importData()
\* is called; neither step clears or changes a store.
C24_MalformedRejected ==
    [][/\ imp'.pc # "idle" /\ imp'.format # "ok" =>
             /\ imp'.pc = "thrown"
             /\ imp'.error = "FormatError"
             /\ imp'.order = << >>
       /\ imp.pc = "idle" /\ imp'.pc = "thrown" =>
             /\ imp'.format # "ok"
             /\ objectStores' = objectStores
       /\ (file.phase = "written" /\ DOMAIN file.tables = {} /\ file' # file) =>
             /\ file'.phase = "rejected"
             /\ file'.error \in {"FormatError", "LoaderError"}
             /\ imp' = imp
             /\ objectStores' = objectStores]_vars

\* the file of an empty database was refused for its lack of tables and null
\* was refused as a snapshot, with clearBeforeImport and skipErrors set; the
\* record put after the export is still there
C24_Witness ==
    /\ file.phase = "rejected"
    /\ file.error = "FormatError"
    /\ imp.pc = "thrown"
    /\ imp.format = "null"
    /\ imp.clearBeforeImport
    /\ imp.skipErrors
    /\ objectStores["records"].records # EmptyMap

\* C25: when the loader of the relational engine is not available, the export
\* to a file and the import of a file reject with the loader's error and
\* change nothing else: no store, no CRUD call, no import of a snapshot.
C25_LoaderFailureContained ==
    [][/\ (file'.error = "LoaderError" /\ file # file') =>
             /\ file'.phase \in {"exportFailed", "rejected"}
             /\ UNCHANGED <<helperVars, engineVars, crudVars, importVars>>
       /\ file'.phase = "rebuilt" => file'.error = ""
       /\ (file.error = "LoaderError" /\ file' # file) => FALSE]_vars

\* after the import of a file was rejected for the missing loader, a put()
\* has resolved with its record stored and an import of a snapshot with
\* clearBeforeImport has returned success
C25_Witness ==
    /\ file.phase = "rejected"
    /\ file.error = "LoaderError"
    /\ call.op = "put"
    /\ call.promise = "resolved"
    /\ call.state = "complete"
    /\ imp.pc = "returned"
    /\ imp.clearBeforeImport
    /\ imp.result.success
    /\ objectStores["records"].records # EmptyMap

(***************************************************************************)
(* The promises of init() and deleteDatabase().  Here a request in the     *)
(* engine's queue carries the promise it will settle: who called           *)
(* (init() itself, or a CRUD method in `const db = await this.init()`),    *)
(* and whether the engine has reported it blocked.                         *)
(***************************************************************************)
\* the errors the engine rejects an open request with
OpenErrors == {"VersionError", "UnknownError"}

\* indexedDB.open(this.dbName, this.version) of an init() called by caller
OpenRequest(caller) == [kind |-> "open", caller |-> caller, blocked |-> FALSE]

\* indexedDB.deleteDatabase(this.dbName)
DeleteRequest == [kind |-> "delete", caller |-> "deleteDatabase", blocked |-> FALSE]

\* resolve(...) or reject(...) of the promise of a request
Settle(caller, outcome, value, error, crud, warned) ==
    [caller |-> caller, outcome |-> outcome, value |-> value, error |-> error,
     crud |-> crud, warned |-> warned, tick |-> ~settled.tick]

\* init(), called by the application ("init") or awaited by a CRUD method
\* ("crud"): resolve(this.db) when memoized, else a new open request
InitCall(caller) ==
    /\ IF db # Null
         THEN /\ settled' = Settle("init", "resolved", db, "",
                                   IF caller = "crud" THEN "started" ELSE "none", FALSE)
              /\ UNCHANGED requestQueue
         ELSE /\ Len(requestQueue) < MaxQueue
              /\ requestQueue' = Append(requestQueue, OpenRequest(caller))
              /\ UNCHANGED settled
    /\ UNCHANGED <<helperVars, idbVersion, objectStores, connections, historyVars,
                   snapshot, crudVars, importVars, portVars, view>>

\* request.onupgradeneeded when the version grows, then request.onsuccess:
\* this.db = event.target.result; resolve(this.db)
OnOpenSuccess ==
    /\ requestQueue # << >>
    /\ Head(requestQueue).kind = "open"
    /\ version >= idbVersion
    /\ Cardinality(connections) < MaxConn
    /\ IF version > idbVersion
         THEN /\ connections = {}
              /\ objectStores' = OnUpgradeNeeded(objectStores, stores)
              /\ idbVersion' = version
         ELSE UNCHANGED <<objectStores, idbVersion>>
    /\ connections' = connections \cup {NewConnection}
    /\ db' = NewConnection
    /\ requestQueue' = Tail(requestQueue)
    /\ settled' = Settle("init", "resolved", NewConnection, "",
                         IF Head(requestQueue).caller = "crud" THEN "started" ELSE "none",
                         FALSE)
    /\ UNCHANGED <<version, stores, historyVars, snapshot, crudVars, importVars, portVars, view>>

\* the failed open request is queued again
AfterOpenErrorRetry(queue) == Append(Tail(queue), Head(queue))

\* the engine's queue after request.onerror of an open request: init() issues
\* nothing more
AfterOpenError(queue) == Tail(queue)

\* request.onerror of an open request: reject(event.target.error); the CRUD
\* method awaiting the init() throws the same error
OnOpenError(e) ==
    /\ requestQueue # << >>
    /\ Head(requestQueue).kind = "open"
    /\ e = "VersionError" => version < idbVersion
    /\ requestQueue' = AfterOpenError(requestQueue)
    /\ settled' = Settle("init", "rejected", Null, e,
                         IF Head(requestQueue).caller = "crud" THEN "rejected" ELSE "none",
                         FALSE)
    /\ UNCHANGED <<helperVars, idbVersion, objectStores, connections, historyVars,
                   snapshot, crudVars, importVars, portVars, view>>

\* deleteDatabase(): this.close(), then indexedDB.deleteDatabase(this.dbName)
DeleteDatabaseCall ==
    /\ Len(requestQueue) < MaxQueue
    /\ connections' = connections \ {db}
    /\ db' = Null
    /\ requestQueue' = Append(requestQueue, DeleteRequest)
    /\ UNCHANGED <<version, stores, idbVersion, objectStores, historyVars,
                   snapshot, crudVars, importVars, portVars, pageVars>>

\* request.onblocked rejects the promise
OnBlockedReject(s, request) ==
    Settle("deleteDatabase", "rejected", Null, "BlockedError", "none", TRUE)

\* request.onblocked: console.warn(...) only
OnBlocked(s, request) == s

\* the engine reports the delete request blocked by the connections still
\* open; the request waits for them to close
OnDeleteBlocked ==
    /\ requestQueue # << >>
    /\ Head(requestQueue).kind = "delete"
    /\ ~Head(requestQueue).blocked
    /\ connections # {}
    /\ requestQueue' = [requestQueue EXCEPT ![1].blocked = TRUE]
    /\ settled' = OnBlocked(settled, Head(requestQueue))
    /\ UNCHANGED <<helperVars, idbVersion, objectStores, connections, historyVars,
                   snapshot, crudVars, importVars, portVars, view>>

\* no connection is open: the engine deletes the database, request.onsuccess
OnDeleteSuccess ==
    /\ requestQueue # << >>
    /\ Head(requestQueue).kind = "delete"
    /\ connections = {}
    /\ idbVersion' = 0
    /\ objectStores' = EmptyMap
    /\ requestQueue' = Tail(requestQueue)
    /\ settled' = Settle("deleteDatabase", "resolved", Null, "", "none",
                         Head(requestQueue).blocked)
    /\ UNCHANGED <<helperVars, connections, historyVars, snapshot, crudVars, importVars,
                   portVars, view>>

\* the engine fails to delete the database: request.onerror
OnDeleteError ==
    /\ requestQueue # << >>
    /\ Head(requestQueue).kind = "delete"
    /\ requestQueue' = Tail(requestQueue)
    /\ settled' = Settle("deleteDatabase", "rejected", Null, "UnknownError", "none",
                         Head(requestQueue).blocked)
    /\ UNCHANGED <<helperVars, idbVersion, objectStores, connections, historyVars,
                   snapshot, crudVars, importVars, portVars, view>>

\* another page opens a connection to the database; its request would wait
\* behind a deletion
OtherOpen ==
    /\ idbVersion > 0
    /\ Cardinality(connections) < MaxConn
    /\ \A i \in 1..Len(requestQueue) : requestQueue[i].kind # "delete"
    /\ connections' = connections \cup {NewConnection}
    /\ UNCHANGED <<helperVars, idbVersion, objectStores, requestQueue, historyVars,
                   snapshot, crudVars, importVars, portVars, pageVars>>

\* a connection that is not the memoized one is closed
OtherClose(c) ==
    /\ c \in connections \ {db}
    /\ connections' = connections \ {c}
    /\ UNCHANGED <<helperVars, idbVersion, objectStores, requestQueue, historyVars,
                   snapshot, crudVars, importVars, portVars, pageVars>>

\* new IndexedDBHelper(name, version) with the application's registry, on a
\* database that does not exist yet or exists with some version
InitLifecycle ==
    /\ version \in 1..MaxVersion
    /\ stores = OpenedRegistry
    /\ db = Null
    /\ idbVersion \in 0..MaxVersion
    /\ objectStores = IF idbVersion = 0 THEN EmptyMap ELSE FreshStores
    /\ connections = {}
    /\ requestQueue = << >>
    /\ opened = Null
    /\ returned = Null
    /\ upgradeDropped = FALSE
    /\ upgradeKept = FALSE
    /\ snapshot = NoSnapshot
    /\ call = NoCall
    /\ imp = NoImport
    /\ source = NoSource
    /\ file = NoFile
    /\ settled = NoSettled
    /\ view = NoView

NextLifecycle ==
    \/ \E caller \in {"init", "crud"} : InitCall(caller)
    \/ OnOpenSuccess
    \/ \E e \in OpenErrors : OnOpenError(e)
    \/ Close
    \/ DeleteDatabaseCall
    \/ OnDeleteBlocked
    \/ OnDeleteSuccess
    \/ OnDeleteError
    \/ OtherOpen
    \/ \E c \in 1..MaxConn : OtherClose(c)

SpecLifecycle == InitLifecycle /\ [][NextLifecycle]_vars

\* a promise settles in this step
Settles == settled' # settled

\* C22: deleteDatabase() closes and un-memoizes the connection, if one is
\* open, and requests the deletion; when the engine reports the request
\* blocked the promise is left pending, only the warning is logged; the promise
\* resolves only in the step in which the engine deletes the database.
C22_DeleteDatabaseBlocked ==
    [][/\ (Len(requestQueue') = Len(requestQueue) + 1
             /\ requestQueue'[Len(requestQueue')].kind = "delete") =>
                /\ db' = Null
                /\ connections' = connections \ {db}
                /\ ~Settles
       /\ (requestQueue # << >> /\ Len(requestQueue') = Len(requestQueue)
             /\ ~Head(requestQueue).blocked /\ Head(requestQueue').blocked) =>
                /\ ~Settles
                /\ Head(requestQueue').kind = "delete"
       /\ (Settles /\ settled'.caller = "deleteDatabase" /\ settled'.outcome = "resolved") =>
                /\ Head(requestQueue).kind = "delete"
                /\ connections = {}
                /\ idbVersion' = 0
                /\ objectStores' = EmptyMap]_vars

\* deleteDatabase() closed the memoized connection, was reported blocked by
\* another connection and resolved after that connection had closed
C22_Witness ==
    /\ settled.caller = "deleteDatabase"
    /\ settled.outcome = "resolved"
    /\ settled.warned
    /\ db = Null
    /\ idbVersion = 0

\* C23: when the engine rejects an open request, init() rejects with the
\* engine's error, and so does the CRUD call that awaited it; the step
\* memoizes no connection and queues no request; an init() after it finds no
\* connection memoized and issues a new open request.
C23_OpenErrorPropagated ==
    [][/\ (Settles /\ settled'.caller = "init" /\ settled'.outcome = "rejected") =>
                /\ Head(requestQueue).kind = "open"
                /\ settled'.error \in OpenErrors
                /\ settled'.value = Null
                /\ Head(requestQueue).caller = "crud" <=> settled'.crud = "rejected"
                /\ db' = db
                /\ connections' = connections
                /\ requestQueue' = Tail(requestQueue)
       /\ (settled.caller = "init" /\ settled.outcome = "rejected" /\ db = Null
             /\ Len(requestQueue') > Len(requestQueue)
             /\ requestQueue'[Len(requestQueue')].kind = "open") =>
                /\ requestQueue' = Append(requestQueue, requestQueue'[Len(requestQueue')])
                /\ ~requestQueue'[Len(requestQueue')].blocked
                /\ ~Settles]_vars

\* a CRUD call has rejected with the VersionError of the open request of its
\* init(); no connection is memoized and a new open request is queued
C23_Witness ==
    /\ settled.caller = "init"
    /\ settled.outcome = "rejected"
    /\ settled.error = "VersionError"
    /\ settled.crud = "rejected"
    /\ db = Null
    /\ requestQueue # << >>
    /\ Head(requestQueue).kind = "open"

(***************************************************************************)
(* The Record page: views/Record.vue with RecordLeft.vue, RecordRight.vue  *)
(* and the store's isSaved flag, over the store `records`.                 *)
(***************************************************************************)
\* the days of the calendar
Days == {1, 2}

\* the texts the user saves
Contents == {"text"}

\* { date, title, index, record } of addRecord(); title is `记录${index}`
PageRecord(day, index, record) == [date |-> day, index |-> index, record |-> record]

\* the records of the files the user imports: one that carries its key and one
\* whose key is null
ImportedRecord == [uid |-> 1, date |-> 1, index |-> 1, record |-> "text"]

ImportedNullKey == [uid |-> Null, date |-> 1, index |-> 2, record |-> ""]

\* the entries `records` of the files
ImportedFiles == {<< >>, <<ImportedRecord>>, <<ImportedRecord, ImportedNullKey>>}

\* what may go wrong in the engine during the import of a file
PageFaults == {"none", "request"}

\* XEUtils.orderBy(recordList, 'index'): ascending by index, stable
RECURSIVE OrderByIndex(_)
OrderByIndex(list) ==
    IF list = << >> THEN << >>
    ELSE LET least == CHOOSE n \in {list[j].index : j \in DOMAIN list} :
                          \A j \in DOMAIN list : n <= list[j].index
             IsLeast(r) == r.index = least
             IsMore(r)  == r.index # least
         IN  SelectSeq(list, IsLeast) \o OrderByIndex(SelectSeq(list, IsMore))

\* selectRecords(): recordList = orderBy(await getByIndex('records', 'date', date), 'index')
SelectRecords(v, os) ==
    [v EXCEPT !.recordList = OrderByIndex(IndexGetAll(os["records"], "date", v.calendarValue))]

\* changeRecord(): content = (await get('records', recordUid)).record, a
\* TypeError when the record is missing
ChangeRecord(v, os) ==
    IF v.recordUid \in DOMAIN os["records"].records
      THEN [v EXCEPT !.content = os["records"].records[v.recordUid].record]
      ELSE [v EXCEPT !.failed = "changeRecord"]

\* handlerChoiceRecord(uid): commit('changeIsSaved', true); recordUid = uid;
\* emit('changeRecord')
ChoiceRecord(v, os, uid) ==
    ChangeRecord([v EXCEPT !.isSaved = TRUE, !.recordUid = uid], os)

\* the uids of the cards of the list
Cards == {view.recordList[j].uid : j \in DOMAIN view.recordList}

\* no import is running
PageIdle == imp.pc = "idle"

\* handlerAddNewRecord and addRecord(day, index): index follows the last card;
\* await add('records', {...}); await selectRecords()
AddRecord ==
    /\ PageIdle
    /\ LET index == IF view.recordList = << >> THEN 1
                    ELSE view.recordList[Len(view.recordList)].index + 1
           r     == AddRequest(objectStores["records"],
                               PageRecord(view.calendarValue, index, ""))
       IN  /\ r.error = ""
           /\ objectStores' = [objectStores EXCEPT !["records"] = r.store]
           /\ view' = SelectRecords(view, objectStores')
    /\ UNCHANGED <<helperVars, idbVersion, connections, requestQueue, historyVars,
                   snapshot, crudVars, importVars, portVars, settled>>

\* the calendar's watcher: handlerSelectRecord and selectRecords() for the new day
HandlerSelectRecord(day) ==
    /\ PageIdle
    /\ day # view.calendarValue
    /\ view' = SelectRecords([view EXCEPT !.calendarValue = day], objectStores)
    /\ UNCHANGED <<helperVars, engineVars, historyVars, snapshot, crudVars, importVars,
                   portVars, settled>>

\* a click on the card of uid
HandlerChoiceRecord(uid) ==
    /\ PageIdle
    /\ uid \in Cards
    /\ view' = ChoiceRecord(view, objectStores, uid)
    /\ UNCHANGED <<helperVars, engineVars, historyVars, snapshot, crudVars, importVars,
                   portVars, settled>>

\* the save button (disabled unless isSaved) and saveRecord(content):
\* record = await get('records', recordUid); record.record = content;
\* await put('records', record); selectRecords().  get(null) throws a
\* DataError, a missing record makes record.record = content a TypeError.
SaveRecord(content) ==
    /\ PageIdle
    /\ view.isSaved
    /\ LET st  == objectStores["records"]
           uid == view.recordUid
       IN  IF uid \in DOMAIN st.records
             THEN /\ objectStores' =
                        [objectStores EXCEPT !["records"] =
                            PutRequest(st, [st.records[uid] EXCEPT !.record = content]).store]
                  /\ view' = SelectRecords([view EXCEPT !.content = content], objectStores')
             ELSE /\ view' = [view EXCEPT !.content = content, !.failed = "saveRecord"]
                  /\ UNCHANGED objectStores
    /\ UNCHANGED <<helperVars, idbVersion, connections, requestQueue, historyVars,
                   snapshot, crudVars, importVars, portVars, settled>>

\* a click on the delete button of the card of uid: handlerDeleteRecord opens
\* the confirmation, the click goes on to the card and chooses it; on
\* confirmation await delete('records', recordUid); selectRecords();
\* recordUid = null; commit('changeIsSaved', false); content = ''
DeleteRecord(uid, confirmed) ==
    /\ PageIdle
    /\ uid \in Cards
    /\ LET chosen == ChoiceRecord(view, objectStores, uid)
           st     == objectStores["records"]
       IN  IF confirmed
             THEN /\ objectStores' =
                        [objectStores EXCEPT !["records"] =
                            [st EXCEPT !.records = MapRemove(@, chosen.recordUid)]]
                  /\ view' = [SelectRecords(chosen, objectStores')
                                EXCEPT !.recordUid = Null, !.isSaved = FALSE,
                                       !.content = ""]
             ELSE /\ view' = chosen
                  /\ UNCHANGED objectStores
    /\ UNCHANGED <<helperVars, idbVersion, connections, requestQueue, historyVars,
                   snapshot, crudVars, importVars, portVars, settled>>

\* importData of the page: the user picks a file and answers whether to clear;
\* importFromFile(file, {clearBeforeImport}) of a JSON file of the store
\* `records`, or of a file that holds no snapshot
PageImport(format, clearBeforeImport) ==
    ImportData(format, IF format = "ok" THEN <<"records">> ELSE << >>,
               clearBeforeImport, TRUE)

\* the success branch of handleImportResult after selectRecords():
\* recordUid = null; content = ''
HandleImportResultSuccess(v) ==
    [v EXCEPT !.recordUid = Null, !.content = ""]

\* handleImportResult(result): both branches refresh the list, the success
\* branch clears the selection
HandleImportResult ==
    /\ imp.pc = "returned"
    /\ view' = IF imp.result.success
                 THEN HandleImportResultSuccess(
                          SelectRecords([view EXCEPT !.alert = "success"], objectStores))
                 ELSE SelectRecords([view EXCEPT !.alert = "warning"], objectStores)
    /\ imp' = NoImport
    /\ UNCHANGED <<helperVars, engineVars, historyVars, snapshot, crudVars, portVars,
                   settled>>

\* the catch of the page's importData: an alert, nothing else
ImportAlert ==
    /\ imp.pc = "thrown"
    /\ imp' = NoImport
    /\ view' = [view EXCEPT !.alert = "error"]
    /\ UNCHANGED <<helperVars, engineVars, historyVars, snapshot, crudVars, portVars,
                   settled>>

NextPage ==
    \/ AddRecord
    \/ \E d \in Days : HandlerSelectRecord(d)
    \/ \E k \in 1..MaxKey : HandlerChoiceRecord(k)
    \/ \E c \in Contents : SaveRecord(c)
    \/ \E k \in 1..MaxKey, confirmed \in BOOLEAN : DeleteRecord(k, confirmed)
    \/ \E f \in {"ok", "null"}, c \in BOOLEAN : PageImport(f, c)
    \/ \E d \in ImportedFiles, f \in PageFaults : ImportStore(d, f)
    \/ \E f \in PageFaults : ImportRecord(f)
    \/ ImportStoreDone
    \/ ImportReturn
    \/ HandleImportResult
    \/ ImportAlert

SpecPage == InitCrud /\ [][NextPage]_vars

\* C30: once an action of the page is over (select, change of date, add, save,
\* delete, import with its handleImportResult), whenever saving is enabled
\* (isSaved is true) the selected recordUid is not null and is the key of a
\* record in the store `records`, and no save has read or written a missing
\* record.
C30_SavedSelectionExists ==
    PageIdle =>
        /\ view.isSaved =>
              /\ view.recordUid # Null
              /\ view.recordUid \in DOMAIN objectStores["records"].records
        /\ view.failed # "saveRecord"

\* saving is enabled for a selected record of the store
C30_Selected ==
    /\ PageIdle
    /\ view.isSaved
    /\ view.recordUid \in DOMAIN objectStores["records"].records

\* save has met a selection that is null or not in the store
C30_SaveFailed == view.failed = "saveRecord"

\* without imports the selection of an enabled editor is in the store
C30_WithoutImport ==
    [][(imp' = imp /\ C30_SavedSelectionExists) => C30_SavedSelectionExists']_vars
====
